---- MODULE Spec2Model ----
(***************************************************************************)
(* Model of oemof_pipe: the resource builders and the package assembly of  *)
(* builder.py, and scenario instantiation (create_blueprint) of            *)
(* blueprint.py.                                                           *)
(*                                                                         *)
(* Representation.                                                         *)
(*  - A Python dict with string keys whose order is not observed (an       *)
(*    instance row) is a TLA+ function from its keys to its values; all    *)
(*    values are strings ("" is the empty / falsy value, "True" is True).  *)
(*  - An insertion-ordered dict (resources, fields, columns) is a sequence *)
(*    of records carrying their key in the field "name"; assigning an      *)
(*    existing key keeps its position (DictPut).                           *)
(*  - An optional value is a sequence of length 0 (None) or 1.             *)
(*  - A time index built by hourly_range(start, periods) is the record     *)
(*    [start, periods]: its i-th timestamp is start + i hours, so two such *)
(*    lists are equal iff the records are (for periods > 0).               *)
(*  - A value list (a column) is run-length encoded: a sequence of runs    *)
(*    [n, v] meaning n times the value v, so that an 8760-step column of   *)
(*    zeros stays small.  Its length is the sum of the runs.               *)
(***************************************************************************)
EXTENDS Integers, Sequences, FiniteSets, TLC

VARIABLES
    resources,   \* PackageBuilder.resources: ordered dict name -> resource
    err,         \* exception raised by the last operation, "" when it returned
    files,       \* files written below the package directory, in write order
    doc,         \* the blueprint document of the running create_blueprint
    directory,   \* what the package directory held before this run: None when
                 \* it does not exist, else Some(the set of paths in it)
    pc,          \* position of create_blueprint ("api": builder API in use)
                 \* or of the running override operation
    run          \* the running override operation: its arguments, the
                 \* tables of its scratch database and its loop position

vars == <<resources, err, files, doc, directory, pc, run>>

\* ------------------------------------------------------------------ bounds

MaxInstances == 2

MaxColumns == 2

MaxOverrideRows == 2

\* ------------------------------------------------------- program constants

DefaultPeriods == 8760

REQUIRED_FIELDS == <<"type", "name">>

DEFAULT_BUS_INSTANCE == ("balanced" :> "True")

DefaultStart == "2026-01-01"

\* ---------------------------------------------------------------- helpers

None == <<>>

Some(x) == <<x>>

In(x, s) == \E i \in 1..Len(s) : s[i] = x

ToSet(s) == {s[i] : i \in 1..Len(s)}

RECURSIVE Dedupe(_)
Dedupe(s) ==
    IF s = <<>> THEN <<>>
    ELSE LET front == Dedupe(SubSeq(s, 1, Len(s) - 1))
             last == s[Len(s)]
         IN IF In(last, front) THEN front ELSE Append(front, last)

DictHas(d, n) == \E i \in 1..Len(d) : d[i].name = n

DictGet(d, n) == d[CHOOSE i \in 1..Len(d) : d[i].name = n]

DictPut(d, rec) ==
    IF DictHas(d, rec.name)
    THEN [i \in 1..Len(d) |-> IF d[i].name = rec.name THEN rec ELSE d[i]]
    ELSE Append(d, rec)

DictKeys(d) == [i \in 1..Len(d) |-> d[i].name]

RowSet(row, k, v) == [x \in DOMAIN row \cup {k} |-> IF x = k THEN v ELSE row[x]]

RowGet(row, k) == IF k \in DOMAIN row THEN row[k] ELSE ""

RECURSIVE SeriesLen(_)
SeriesLen(series) ==
    IF series = <<>> THEN 0 ELSE Head(series).n + SeriesLen(Tail(series))

Zeros(n) == IF n = 0 THEN <<>> ELSE <<[n |-> n, v |-> "0"]>>

\* --------------------------------------------------------------- builder.py

\* The component definitions of the components directory.
Components ==
    [bus  |-> [name |-> "bus",
               attributes |-> <<"region", "name", "type", "balanced">>,
               busses |-> <<>>, sequences |-> <<>>],
     load |-> [name |-> "load",
               attributes |-> <<"amount", "bus", "profile", "region", "type", "name">>,
               busses |-> <<"bus">>, sequences |-> <<"profile">>],
     link |-> [name |-> "link",
               attributes |-> <<"from_bus", "to_bus", "type", "name">>,
               busses |-> <<"from_bus", "to_bus">>, sequences |-> <<>>]]

Component_from_name(component_name) == Components[component_name]

hourly_range(start, periods) == [start |-> start, periods |-> periods]

NoTimeindex == [start |-> "", periods |-> 0]

NoResource ==
    [kind |-> "none", name |-> "", component |-> "", sequences |-> {},
     fields |-> <<>>, instances |-> <<>>, timeindex |-> NoTimeindex,
     columns |-> <<>>]

\* with_required appending "name" before "type".
with_required_reversed(selected) ==
    LET s1 == IF In(REQUIRED_FIELDS[2], selected) THEN selected
              ELSE Append(selected, REQUIRED_FIELDS[2])
    IN IF In(REQUIRED_FIELDS[1], s1) THEN s1 ELSE Append(s1, REQUIRED_FIELDS[1])

\* selected_attributes after the loop over REQUIRED_FIELDS.
with_required(selected) ==
    LET s1 == IF In(REQUIRED_FIELDS[1], selected) THEN selected
              ELSE Append(selected, REQUIRED_FIELDS[1])
    IN IF In(REQUIRED_FIELDS[2], s1) THEN s1 ELSE Append(s1, REQUIRED_FIELDS[2])

\* ElementResourceBuilder.__init__ with add_field.  selected_attributes is
\* [kind, items]: kind "none" (omitted), "list" (a list) or "dict" (the
\* component's attribute dict itself, which has no append).  The result
\* carries the caller's list as the constructor leaves it (attributes).
ElementResourceBuilder(component_name, resource_name, selected_attributes, sequences) ==
    LET component == Component_from_name(component_name)
        isList == selected_attributes.kind = "list"
        given == IF isList THEN selected_attributes.items ELSE component.attributes
        selected == with_required(given)
        seqs == IF sequences # <<>>
                THEN ToSet(component.sequences) \cup ToSet(sequences)
                ELSE ToSet(component.sequences)
    IN IF ~isList /\ selected # given
       THEN [err |-> "AttributeError", res |-> NoResource, attributes |-> given]
       ELSE IF \E i \in 1..Len(selected) : ~In(selected[i], component.attributes)
       THEN [err |-> "KeyError", res |-> NoResource, attributes |-> selected]
       ELSE [err |-> "",
             res |-> [kind |-> "element", name |-> resource_name,
                      component |-> component_name, sequences |-> seqs,
                      fields |-> Dedupe(selected), instances |-> <<>>,
                      timeindex |-> NoTimeindex, columns |-> <<>>],
             attributes |-> selected]

\* Element_add_instance without the check of the row's keys.
Element_add_instance_unchecked(res, data) ==
    IF "name" \notin DOMAIN data
    THEN [err |-> "ValueError", res |-> res]
    ELSE LET typed == IF "type" \notin DOMAIN data
                      THEN RowSet(data, "type", res.component)
                      ELSE data
         IN IF typed["type"] # res.component
            THEN [err |-> "ValueError", res |-> res]
            ELSE [err |-> "",
                  res |-> [res EXCEPT !.instances = Append(@, typed)]]

\* Element_add_instance refusing a name the resource already holds.
Element_add_instance_unique(res, data) ==
    IF "name" \notin DOMAIN data
    THEN [err |-> "ValueError", res |-> res]
    ELSE LET typed == IF "type" \notin DOMAIN data
                      THEN RowSet(data, "type", res.component)
                      ELSE data
         IN IF typed["type"] # res.component
            THEN [err |-> "ValueError", res |-> res]
            ELSE IF \E key \in DOMAIN typed : ~In(key, res.fields)
            THEN [err |-> "KeyError", res |-> res]
            ELSE IF \E k \in 1..Len(res.instances) : res.instances[k]["name"] = typed["name"]
            THEN [err |-> "ValueError", res |-> res]
            ELSE [err |-> "",
                  res |-> [res EXCEPT !.instances = Append(@, typed)]]

\* ElementResourceBuilder.add_instance
Element_add_instance(res, data) ==
    IF "name" \notin DOMAIN data
    THEN [err |-> "ValueError", res |-> res]
    ELSE LET typed == IF "type" \notin DOMAIN data
                      THEN RowSet(data, "type", res.component)
                      ELSE data
         IN IF typed["type"] # res.component
            THEN [err |-> "ValueError", res |-> res]
            ELSE IF \E key \in DOMAIN typed : ~In(key, res.fields)
            THEN [err |-> "KeyError", res |-> res]
            ELSE [err |-> "",
                  res |-> [res EXCEPT !.instances = Append(@, typed)]]

\* ElementResourceBuilder.foreign_keys; seqOrder is the order in which the
\* set self.sequences is iterated.
foreign_keys(res, seqOrder) ==
    LET busses == Component_from_name(res.component).busses
    IN [i \in 1..(Len(busses) + Len(seqOrder)) |->
          IF i <= Len(busses)
          THEN [fields |-> busses[i], resource |-> "bus", reffields |-> "name"]
          ELSE [fields |-> seqOrder[i - Len(busses)],
                resource |-> res.name \o "_profile", reffields |-> ""]]

\* The orders in which a set of strings can be iterated.
SetOrders(S) ==
    {s \in [1..Cardinality(S) -> S] : \A i, j \in 1..Cardinality(S) : i # j => s[i] # s[j]}

\* SequenceResourceBuilder.__init__: an omitted or empty time index is
\* replaced by the default one.
SequenceResourceBuilder(resource_name, timeindex) ==
    [kind |-> "sequence", name |-> resource_name, component |-> "",
     sequences |-> {}, fields |-> <<"timeindex">>, instances |-> <<>>,
     timeindex |-> IF timeindex # None /\ timeindex[1].periods > 0
                   THEN timeindex[1]
                   ELSE hourly_range(DefaultStart, DefaultPeriods),
     columns |-> <<>>]

\* Sequence_add_instance without the length check.
Sequence_add_instance_unchecked(res, name, timeseries) ==
    [err |-> "",
     res |-> [res EXCEPT
                !.fields = IF In(name, @) THEN @ ELSE Append(@, name),
                !.columns = DictPut(@, [name |-> name, values |-> timeseries])]]

\* SequenceResourceBuilder.add_instance
Sequence_add_instance(res, name, timeseries) ==
    IF SeriesLen(timeseries) # res.timeindex.periods
    THEN [err |-> "IndexError", res |-> res]
    ELSE [err |-> "",
          res |-> [res EXCEPT
                     !.fields = IF In(name, @) THEN @ ELSE Append(@, name),
                     !.columns = DictPut(@, [name |-> name, values |-> timeseries])]]

\* PackageBuilder.add_resource
add_resource(rs, resource) == DictPut(rs, resource)

\* PackageBuilder.infer_sequences_from_resources: snapshot[i..] still to visit.
RECURSIVE infer_sequences_loop(_, _, _)
infer_sequences_loop(rs, snapshot, i) ==
    IF i > Len(snapshot) THEN rs
    ELSE LET resource == snapshot[i]
         IN IF resource.kind = "sequence"
            THEN infer_sequences_loop(rs, snapshot, i + 1)
            ELSE IF resource.sequences # {}
                    /\ \E sequence \in resource.sequences : In(sequence, resource.fields)
            THEN IF DictHas(rs, resource.name \o "_profile")
                 THEN infer_sequences_loop(rs, snapshot, i + 1)
                 ELSE infer_sequences_loop(
                        add_resource(rs, SequenceResourceBuilder(resource.name \o "_profile", None)),
                        snapshot, i + 1)
            ELSE infer_sequences_loop(rs, snapshot, i + 1)

\* infer_sequences_from_resources without the test for a resource that
\* already has the companion's name: that resource is replaced.
infer_sequences_from_resources_replacing(rs) ==
    LET wanted == {rs[i].name \o "_profile" :
                      i \in {j \in 1..Len(rs) :
                                /\ rs[j].kind = "element"
                                /\ \E sequence \in rs[j].sequences : In(sequence, rs[j].fields)}}
        missing == CHOOSE order \in SetOrders({n \in wanted : ~DictHas(rs, n)}) : TRUE
    IN [i \in 1..Len(rs) |->
           IF rs[i].name \in wanted THEN SequenceResourceBuilder(rs[i].name, None)
           ELSE rs[i]]
       \o [k \in 1..Len(missing) |-> SequenceResourceBuilder(missing[k], None)]

infer_sequences_from_resources(rs) == infer_sequences_loop(rs, rs, 1)

\* The scan of infer_busses_from_resources: resource r, bus attribute f of
\* its component, instance i of its (live) instance list.
RECURSIVE scan_busses(_, _, _, _, _)
scan_busses(rs, existing_bus_names, r, f, i) ==
    IF r > Len(rs) THEN [err |-> "", resources |-> rs]
    ELSE IF rs[r].kind # "element"
    THEN scan_busses(rs, existing_bus_names, r + 1, 1, 1)
    ELSE LET busses == Component_from_name(rs[r].component).busses
         IN IF f > Len(busses)
            THEN scan_busses(rs, existing_bus_names, r + 1, 1, 1)
            ELSE IF i > Len(rs[r].instances)
            THEN scan_busses(rs, existing_bus_names, r, f + 1, 1)
            ELSE LET bus_name == RowGet(rs[r].instances[i], busses[f])
                 IN IF bus_name # "" /\ bus_name \notin existing_bus_names
                    THEN LET bus == DictGet(rs, "bus")
                             bus_instance == RowSet(DEFAULT_BUS_INSTANCE, "name", bus_name)
                             added == IF bus.kind = "element"
                                      THEN Element_add_instance(bus, bus_instance)
                                      ELSE [err |-> "TypeError", res |-> bus]
                         IN IF added.err # ""
                            THEN [err |-> added.err, resources |-> rs]
                            ELSE scan_busses(DictPut(rs, added.res),
                                             existing_bus_names \cup {bus_name}, r, f, i + 1)
                    ELSE scan_busses(rs, existing_bus_names, r, f, i + 1)

\* infer_busses_from_resources starting from an empty set of known names.
infer_busses_from_resources_forgetful(rs) ==
    LET withBus == IF ~DictHas(rs, "bus")
                   THEN add_resource(rs,
                          ElementResourceBuilder("bus", "bus", [kind |-> "none", items |-> <<>>], <<>>).res)
                   ELSE rs
    IN scan_busses(withBus, {}, 1, 1, 1)

\* PackageBuilder.infer_busses_from_resources
infer_busses_from_resources(rs) ==
    LET withBus == IF ~DictHas(rs, "bus")
                   THEN add_resource(rs,
                          ElementResourceBuilder("bus", "bus", [kind |-> "none", items |-> <<>>], <<>>).res)
                   ELSE rs
        bus == DictGet(withBus, "bus")
    IN IF bus.kind = "sequence" /\ bus.columns # <<>>
       THEN [err |-> "TypeError", resources |-> withBus]
       ELSE scan_busses(withBus,
                        {bus.instances[k]["name"] : k \in 1..Len(bus.instances)},
                        1, 1, 1)

\* The path of a resource's file (ElementResourceBuilder.path,
\* SequenceResourceBuilder.path).
path(res) ==
    IF res.kind = "element" THEN "data/elements/" \o res.name \o ".csv"
    ELSE "data/sequences/" \o res.name \o ".csv"

\* ElementResourceBuilder.save writing only the cells an instance sets.
Element_save_sparse(res) ==
    [path |-> path(res), name |-> res.name, header |-> res.fields, start |-> "",
     rows |-> [k \in 1..Len(res.instances) |->
                 [n |-> 1,
                  cells |-> LET set == SelectSeq(res.fields,
                                          LAMBDA attr : attr \in DOMAIN res.instances[k])
                            IN [f \in 1..Len(set) |-> res.instances[k][set[f]]]]]]

\* ElementResourceBuilder.save: the header and one row per instance.  A
\* rendered table is [path, name, header, start, rows]; rows is a sequence of runs
\* [n, cells]: n consecutive rows with these cells (after the timestamp
\* start + row number hours, in a sequence table).
Element_save(res) ==
    [path |-> path(res), name |-> res.name, header |-> res.fields, start |-> "",
     rows |-> [k \in 1..Len(res.instances) |->
                 [n |-> 1,
                  cells |-> [f \in 1..Len(res.fields) |->
                               RowGet(res.instances[k], res.fields[f])]]]]

\* A value list without its first n values.
RECURSIVE DropValues(_, _)
DropValues(series, n) ==
    IF n = 0 \/ series = <<>> THEN series
    ELSE IF series[1].n <= n THEN DropValues(Tail(series), n - series[1].n)
    ELSE <<[n |-> series[1].n - n, v |-> series[1].v]>> \o Tail(series)

\* zip(self.timeindex, *self.instances.values()): rows up to the end of the
\* shortest list.
RECURSIVE zip(_, _)
zip(periods, columns) ==
    IF periods = 0 \/ \E c \in 1..Len(columns) : columns[c] = <<>> THEN <<>>
    ELSE LET lengths == {periods} \cup {columns[c][1].n : c \in 1..Len(columns)}
             n == CHOOSE x \in lengths : \A y \in lengths : x <= y
         IN <<[n |-> n, cells |-> [c \in 1..Len(columns) |-> columns[c][1].v]]>>
            \o zip(periods - n, [c \in 1..Len(columns) |-> DropValues(columns[c], n)])

\* SequenceResourceBuilder.save
Sequence_save(res) ==
    [path |-> path(res), name |-> res.name, header |-> res.fields, start |-> res.timeindex.start,
     rows |-> IF Len(res.columns) > 0
              THEN zip(res.timeindex.periods,
                       [c \in 1..Len(res.columns) |-> res.columns[c].values])
              ELSE <<>>]

\* map_to_frictionless_resource: the entry of a resource in the descriptor;
\* seqOrder is the order in which the set self.sequences is iterated.
map_to_frictionless_resource(resource, seqOrder) ==
    [path |-> path(resource),
     name |-> resource.name,
     fields |-> resource.fields,
     primaryKey |-> IF resource.kind = "sequence" THEN "timeindex" ELSE "name",
     foreignKeys |-> IF resource.kind = "element" THEN foreign_keys(resource, seqOrder)
                     ELSE <<>>]

\* The ways the sets self.sequences of the resources can be iterated: one
\* order per resource.
IterationOrders(rs) ==
    {orders \in [1..Len(rs) -> UNION {SetOrders(rs[i].sequences) : i \in 1..Len(rs)}] :
        \A i \in 1..Len(rs) : orders[i] \in SetOrders(rs[i].sequences)}

\* save_package writing the descriptor first.
save_package_descriptor_first(rs, orders) ==
    [i \in 1..(Len(rs) + 1) |->
        IF i = 1
        THEN [path |-> "datapackage.json", name |-> "", header |-> <<>>, start |-> "",
              rows |-> <<>>,
              resources |-> [k \in 1..Len(rs) |->
                               map_to_frictionless_resource(rs[k], orders[k])]]
        ELSE IF rs[i - 1].kind = "element" THEN Element_save(rs[i - 1])
        ELSE Sequence_save(rs[i - 1])]

\* PackageBuilder.save_package: the files written, in order; the descriptor
\* lists the resources it added in the loop.
save_package(rs, orders) ==
    [i \in 1..(Len(rs) + 1) |->
        IF i > Len(rs)
        THEN [path |-> "datapackage.json", name |-> "", header |-> <<>>, start |-> "",
              rows |-> <<>>,
              resources |-> [k \in 1..Len(rs) |->
                               map_to_frictionless_resource(rs[k], orders[k])]]
        ELSE IF rs[i].kind = "element" THEN Element_save(rs[i])
        ELSE Sequence_save(rs[i])]

\* ------------------------------------------------------------- blueprint.py

\* check_instance_attributes: TRUE when no KeyError is raised.
check_instance_attributes(instance_data, attributes) ==
    \A attr \in DOMAIN instance_data : In(attr, attributes)

\* add_default_sequence_foreign_keys (closure of _add_instances)
add_default_sequence_foreign_keys(instance_data, sequences, component, attributes) ==
    LET missing == {sequence_field \in ToSet(sequences) \cup ToSet(component.sequences) :
                      ~(sequence_field \in DOMAIN instance_data
                        \/ ~In(sequence_field, attributes))}
    IN IF missing = {} THEN [err |-> "", row |-> instance_data]
       ELSE IF "name" \notin DOMAIN instance_data
       THEN [err |-> "KeyError", row |-> instance_data]
       ELSE [err |-> "",
             row |-> [k \in DOMAIN instance_data \cup missing |->
                        IF k \in missing THEN instance_data["name"] \o "-profile"
                        ELSE instance_data[k]]]

\* adapt_regions_in_busses leaving the bus names as declared.
adapt_regions_in_busses_unprefixed(instance_data, component, region) ==
    instance_data

\* adapt_regions_in_busses (closure of _add_instances)
adapt_regions_in_busses(instance_data, component, region) ==
    [k \in DOMAIN instance_data |->
        IF In(k, component.busses) THEN region \o "-" \o instance_data[k]
        ELSE instance_data[k]]

\* add_replica synthesizing the sequence foreign keys before the name is
\* prefixed with the region.
add_replica_early_fks(resource, instance, region, sequences, component, attributes) ==
    IF "name" \notin DOMAIN instance
    THEN [err |-> "KeyError", res |-> resource]
    ELSE LET instance_with_fks ==
                 add_default_sequence_foreign_keys(RowSet(instance, "region", region),
                                                   sequences, component, attributes)
         IN IF instance_with_fks.err # ""
            THEN [err |-> instance_with_fks.err, res |-> resource]
            ELSE Element_add_instance(resource,
                     adapt_regions_in_busses(
                         RowSet(instance_with_fks.row, "name",
                                region \o "-" \o instance["name"]),
                         component, region))

\* The body of the loop over instance_regions: one replica of instance.
add_replica(resource, instance, region, sequences, component, attributes) ==
    IF "name" \notin DOMAIN instance
    THEN [err |-> "KeyError", res |-> resource]
    ELSE LET copied_instance ==
                 RowSet(RowSet(instance, "region", region),
                        "name", region \o "-" \o instance["name"])
             instance_with_fks ==
                 add_default_sequence_foreign_keys(copied_instance, sequences,
                                                   component, attributes)
         IN IF instance_with_fks.err # ""
            THEN [err |-> instance_with_fks.err, res |-> resource]
            ELSE Element_add_instance(resource,
                     adapt_regions_in_busses(instance_with_fks.row, component, region))

\* The loops of _add_instances: instance i, and region j of instance_regions
\* (an optional list; None: the instances are region-independent).
RECURSIVE add_instances_loop(_, _, _, _, _, _)
add_instances_loop(resource, config, attributes, instance_regions, i, j) ==
    LET component == Component_from_name(config.component)
        instances == config.instances
    IN IF i > Len(instances) THEN [err |-> "", res |-> resource]
       ELSE IF j = 1 /\ ~check_instance_attributes(instances[i], attributes)
       THEN [err |-> "KeyError", res |-> resource]
       ELSE IF instance_regions = None
       THEN LET instance_with_fks ==
                    add_default_sequence_foreign_keys(instances[i], config.sequences,
                                                      component, attributes)
                added == IF instance_with_fks.err # ""
                         THEN [err |-> instance_with_fks.err, res |-> resource]
                         ELSE Element_add_instance(resource, instance_with_fks.row)
            IN IF added.err # "" THEN added
               ELSE add_instances_loop(added.res, config, attributes, instance_regions, i + 1, 1)
       ELSE IF j > Len(instance_regions[1])
       THEN add_instances_loop(resource, config, attributes, instance_regions, i + 1, 1)
       ELSE LET added == add_replica(resource, instances[i], instance_regions[1][j],
                                     config.sequences, component, attributes)
            IN IF added.err # "" THEN added
               ELSE add_instances_loop(added.res, config, attributes, instance_regions, i, j + 1)

\* instance_regions_of ignoring the resource's own "regions".
instance_regions_of_global(config, regions) == regions

\* config.get("regions", regions)
instance_regions_of(config, regions) ==
    IF config.regions.present THEN config.regions.value ELSE regions

\* _add_instances
add_instances(resource, config, attributes, regions) ==
    add_instances_loop(resource, config, attributes,
                       instance_regions_of(config, regions), 1, 1)

\* The body of the loop of _create_elements for one entry of "elements".
create_element(res_name, config, regions) ==
    LET component == Component_from_name(config.component)
        isDict == Len(config.attributes) = 0
        attributes0 == IF isDict THEN component.attributes ELSE config.attributes
        wantRegion == regions # None /\ regions[1] # <<>> /\ ~In("region", attributes0)
        attributes1 == IF wantRegion THEN Append(attributes0, "region") ELSE attributes0
        built == ElementResourceBuilder(
                     config.component, res_name,
                     [kind |-> IF isDict THEN "dict" ELSE "list", items |-> attributes1],
                     config.sequences)
    IN IF isDict /\ wantRegion THEN [err |-> "AttributeError", res |-> NoResource]
       ELSE IF built.err # "" THEN [err |-> built.err, res |-> NoResource]
       ELSE add_instances(built.res, config, built.attributes, regions)

\* _create_elements: entry k of "elements" onwards.
RECURSIVE create_elements_loop(_, _, _)
create_elements_loop(rs, blueprint_data, k) ==
    IF k > Len(blueprint_data.elements) THEN [err |-> "", resources |-> rs]
    ELSE LET entry == blueprint_data.elements[k]
             created == create_element(entry.name, entry.config, blueprint_data.regions)
         IN IF created.err # "" THEN [err |-> created.err, resources |-> rs]
            ELSE create_elements_loop(add_resource(rs, created.res), blueprint_data, k + 1)

create_elements(rs, blueprint_data) == create_elements_loop(rs, blueprint_data, 1)

\* Python's order of the strings that occur as sequence foreign-key values.
SortedStrings ==
    <<"50",
      "B-d1-profile", "B-d2-profile", "B-d4-profile", "B-d5-profile",
      "BB-d1-profile", "BB-d2-profile", "BB-d4-profile", "BB-d5-profile",
      "d1-profile", "d2-profile", "d4-profile", "d5-profile", "own">>

RankOf(x) == CHOOSE i \in 1..Len(SortedStrings) : SortedStrings[i] = x

\* sorted(S) for a set of strings
RECURSIVE sorted(_)
sorted(S) ==
    IF S = {} THEN <<>>
    ELSE LET least == CHOOSE x \in S : \A y \in S : RankOf(x) <= RankOf(y)
         IN <<least>> \o sorted(S \ {least})

\* The zero-filled columns of one explicitly declared sequence resource.
RECURSIVE add_columns(_, _, _, _)
add_columns(resource, columns, c, timeindex) ==
    IF c > Len(columns) THEN [err |-> "", res |-> resource]
    ELSE LET added == Sequence_add_instance(resource, columns[c], Zeros(timeindex.periods))
         IN IF added.err # "" THEN added
            ELSE add_columns(added.res, columns, c + 1, timeindex)

\* The loop of _create_sequences over the "sequences" of the document.
RECURSIVE create_explicit_sequences(_, _, _, _)
create_explicit_sequences(rs, sequences, k, timeindex) ==
    IF k > Len(sequences) THEN [err |-> "", resources |-> rs]
    ELSE LET resource == SequenceResourceBuilder(sequences[k].name, Some(timeindex))
             filled == IF timeindex.periods > 0
                       THEN add_columns(resource, sequences[k].columns, 1, timeindex)
                       ELSE [err |-> "", res |-> resource]
         IN IF filled.err # "" THEN [err |-> filled.err, resources |-> rs]
            ELSE create_explicit_sequences(add_resource(rs, filled.res), sequences,
                                           k + 1, timeindex)

\* The values collected by _add_default_profiles for one element resource.
referenced_sequences(resource) ==
    {resource.instances[i][column] :
        <<i, column>> \in {ic \in (1..Len(resource.instances)) \X resource.sequences :
                             ic[2] \in DOMAIN resource.instances[ic[1]]}}

\* The loop over sorted(sequences) of _add_default_profiles.
RECURSIVE add_profile_columns(_, _, _, _, _)
add_profile_columns(rs, sequence_name, names, c, timeindex) ==
    IF c > Len(names) THEN [err |-> "", resources |-> rs]
    ELSE LET present == IF DictHas(rs, sequence_name) THEN rs
                        ELSE add_resource(rs,
                               SequenceResourceBuilder(sequence_name, Some(timeindex)))
             target == DictGet(present, sequence_name)
             added == IF target.kind = "sequence"
                      THEN Sequence_add_instance(target, names[c], Zeros(timeindex.periods))
                      ELSE [err |-> "TypeError", res |-> target]
         IN IF added.err # "" THEN [err |-> added.err, resources |-> present]
            ELSE add_profile_columns(DictPut(present, added.res), sequence_name,
                                     names, c + 1, timeindex)

\* _add_default_profiles: snapshot[i..] still to visit.
RECURSIVE add_default_profiles(_, _, _, _)
add_default_profiles(rs, snapshot, i, timeindex) ==
    IF i > Len(snapshot) THEN [err |-> "", resources |-> rs]
    ELSE IF snapshot[i].kind = "sequence"
    THEN add_default_profiles(rs, snapshot, i + 1, timeindex)
    ELSE LET sequences == referenced_sequences(snapshot[i])
             filled == add_profile_columns(rs, snapshot[i].name \o "_profile",
                                           sorted(sequences), 1, timeindex)
         IN IF filled.err # "" THEN filled
            ELSE add_default_profiles(filled.resources, snapshot, i + 1, timeindex)

\* _create_sequences
create_sequences(rs, blueprint_data) ==
    IF blueprint_data.timeindex = None
    THEN [err |-> "TypeError", resources |-> rs]
    ELSE LET timeindex == hourly_range(blueprint_data.timeindex[1].start,
                                       blueprint_data.timeindex[1].periods)
             explicit == create_explicit_sequences(rs, blueprint_data.sequences, 1, timeindex)
         IN IF explicit.err # "" THEN explicit
            ELSE add_default_profiles(explicit.resources, explicit.resources, 1, timeindex)

\* -------------------------------------------- scenario.py: the override engine
\* A table of the scratch database is [columns, rows]: the column names in
\* order and, per row, a function from the column names to strings, read
\* with all_varchar; "" is NULL (an empty cell).

NoTable == [columns |-> <<>>, rows |-> <<>>]

\* The starts of the model that are a date, not a datetime (YAML reads
\* "start: 2016-06-01" as a date): adding an hour to a date leaves it as it
\* is, so every step of hourly_range is the start.
DateStarts == {"2016-06-01"}

\* str() of time step i (i < 10) of hourly_range from start.
Timestamp(start, i) ==
    IF start \in DateStarts THEN start
    ELSE start \o " 0" \o ToString(i) \o ":00:00"

\* The lines of a rendered table as lists of cells; i lines precede.
RECURSIVE Lines(_, _, _)
Lines(runs, start, i) ==
    IF runs = <<>> THEN <<>>
    ELSE LET cells == IF start = "" THEN runs[1].cells
                      ELSE <<Timestamp(start, i)>> \o runs[1].cells
             rest == IF runs[1].n = 1 THEN Tail(runs)
                     ELSE <<[runs[1] EXCEPT !.n = @ - 1]>> \o Tail(runs)
         IN <<cells>> \o Lines(rest, start, i + 1)

\* SELECT * FROM read_csv_auto(file, sep=';', all_varchar=True)
read_csv_auto(file) ==
    LET lines == Lines(file.rows, file.start, 0)
    IN [columns |-> file.header,
        rows |-> [r \in 1..Len(lines) |->
                    [col \in ToSet(file.header) |->
                       lines[r][CHOOSE f \in 1..Len(file.header) : file.header[f] = col]]]]

\* COPY resource_table TO file (HEADER, DELIMITER ';')
copy_to(table, file) ==
    [file EXCEPT
       !.header = table.columns,
       !.start = "",
       !.rows = [r \in 1..Len(table.rows) |->
                   [n |-> 1,
                    cells |-> [f \in 1..Len(table.columns) |->
                                 table.rows[r][table.columns[f]]]]]]

\* pkg.resources: the files of the resources the descriptor lists, in its
\* order.
pkg_resources(package) ==
    LET descriptor == package[CHOOSE i \in 1..Len(package) :
                                 package[i].path = "datapackage.json"]
    IN [k \in 1..Len(descriptor.resources) |->
          package[CHOOSE i \in 1..Len(package) :
                     package[i].path = descriptor.resources[k].path]]

\* "sequences" in res.path
in_sequences(file) == file.path = "data/sequences/" \o file.name \o ".csv"

\* The orders in which the n rows of a table can be visited.
RowOrders(n) == SetOrders(1..n)

\* The first row number of order that is in the set rows.
FirstOf(order, rows) ==
    order[CHOOSE i \in 1..Len(order) :
             order[i] \in rows /\ \A j \in 1..(i - 1) : order[j] \notin rows]

\* ... WHERE {scenario_column} = '{scenario}' OR {scenario_column} = 'ALL'.
\* scenario is [kind, keys]: one key (a str), or a list of keys, whose
\* repr inside the quotes is not an SQL string.
where_scenario(data, scenario_column, scenario) ==
    IF scenario.kind # "str" THEN [err |-> "ParserException", table |-> NoTable]
    ELSE IF ~In(scenario_column, data.columns)
    THEN [err |-> "BinderException", table |-> NoTable]
    ELSE [err |-> "",
          table |-> [columns |-> data.columns,
                     rows |-> SelectSeq(data.rows,
                                LAMBDA row : \/ row[scenario_column] = scenario.keys[1]
                                             \/ row[scenario_column] = "ALL")]]

\* PIVOT (SELECT name, scenario, var_name, var_value FROM raw_table)
\* ON var_name USING ANY_VALUE(var_value): one row per (name, scenario) and
\* one column per variable; ANY_VALUE is the first non-NULL value in the
\* order in which the engine visits the rows.
pivot(raw_table, scenario_column, var_name_col, var_value_col, order) ==
    LET rows == raw_table.rows
        groups == Dedupe([i \in 1..Len(rows) |-> <<rows[i]["name"], rows[i][scenario_column]>>])
        variables == Dedupe([i \in 1..Len(rows) |-> rows[i][var_name_col]])
        values(g, v) == {i \in 1..Len(rows) :
                           /\ <<rows[i]["name"], rows[i][scenario_column]>> = g
                           /\ rows[i][var_name_col] = v
                           /\ rows[i][var_value_col] # ""}
    IN [columns |-> <<"name", scenario_column>> \o variables,
        rows |-> [g \in 1..Len(groups) |->
                    [col \in {"name", scenario_column} \cup ToSet(variables) |->
                       IF col = "name" THEN groups[g][1]
                       ELSE IF col = scenario_column THEN groups[g][2]
                       ELSE IF values(groups[g], col) = {} THEN ""
                       ELSE rows[FirstOf(order, values(groups[g], col))][var_value_col]]]]

\* _get_update_columns taking only the first common column.
get_update_columns_first(resource_table, data_table, excluded_columns) ==
    LET common == SelectSeq(data_table.columns,
                     LAMBDA col : In(col, resource_table.columns) /\ ~In(col, excluded_columns))
    IN IF common = <<>> THEN <<>> ELSE <<common[1]>>

\* _get_update_columns
get_update_columns(resource_table, data_table, excluded_columns) ==
    SelectSeq(data_table.columns,
       LAMBDA col : In(col, resource_table.columns) /\ ~In(col, excluded_columns))

\* The UPDATE as an upsert: data rows without a target row are appended.
update_upsert(resource_table, data_table, key, update_cols, order) ==
    LET matches(row) == {j \in 1..Len(data_table.rows) :
                            /\ data_table.rows[j][key] # ""
                            /\ data_table.rows[j][key] = row[key]}
        missing == SelectSeq(data_table.rows,
                      LAMBDA d : \A i \in 1..Len(resource_table.rows) :
                                    resource_table.rows[i][key] # d[key])
    IN [resource_table EXCEPT
          !.rows = [i \in 1..Len(@) |->
                      IF matches(@[i]) = {} THEN @[i]
                      ELSE [col \in DOMAIN @[i] |->
                              IF In(col, update_cols)
                              THEN data_table.rows[FirstOf(order, matches(@[i]))][col]
                              ELSE @[i][col]]]
                   \o [k \in 1..Len(missing) |->
                         [col \in ToSet(resource_table.columns) |->
                            IF col \in DOMAIN missing[k] THEN missing[k][col] ELSE ""]]]

\* UPDATE resource_table SET col = data_table.col, ... FROM data_table
\* WHERE resource_table.key = data_table.key.  A target row joined with
\* several data rows takes the one the engine visits first.
update(resource_table, data_table, key, update_cols, order) ==
    LET matches(row) == {j \in 1..Len(data_table.rows) :
                            /\ data_table.rows[j][key] # ""
                            /\ data_table.rows[j][key] = row[key]}
    IN [resource_table EXCEPT
          !.rows = [i \in 1..Len(@) |->
                      IF matches(@[i]) = {} THEN @[i]
                      ELSE [col \in DOMAIN @[i] |->
                              IF In(col, update_cols)
                              THEN data_table.rows[FirstOf(order, matches(@[i]))][col]
                              ELSE @[i][col]]]]

\* The column names of the model that are no plain SQL identifiers: an
\* f-string that pastes one unquoted into a statement makes a syntax error.
NotIdentifiers == {"d1-profile", "d2-profile"}

\* ", ".join(f"{col} = data_table.{col}" for col in update_cols) parses.
set_clause_parses(update_cols) == \A i \in 1..Len(update_cols) : update_cols[i] \notin NotIdentifiers

\* [str(val) for val in json.loads(series_str)] of the series texts of
\* the model.
json_loads(series_str) ==
    CASE series_str = "[1, 2, 3]" -> <<"1", "2", "3">>
      [] series_str = "[9.0, 9e0, 9]" -> <<"9.0", "9.0", "9">>
      [] series_str = "[7, 8]" -> <<"7", "8">>
      [] OTHER -> <<>>

\* WITH numbered_resource ... UPDATE resource_table SET "var_name" =
\* series_data.val ...: row i takes the value whose index is the row number
\* of a row with the same timeindex; of several such rows, the one the engine
\* visits first.
update_series(resource_table, var_name, series_list, order) ==
    LET numbered(row) == {j \in 1..Len(resource_table.rows) :
                             /\ j <= Len(series_list)
                             /\ resource_table.rows[j]["timeindex"] # ""
                             /\ resource_table.rows[j]["timeindex"] = row["timeindex"]}
        rows == resource_table.rows
    IN [columns |-> resource_table.columns,
        rows |-> [i \in 1..Len(rows) |->
                    IF numbered(rows[i]) = {} THEN rows[i]
                    ELSE [col \in DOMAIN rows[i] |->
                            IF col = var_name
                            THEN series_list[FirstOf(order, numbered(rows[i]))]
                            ELSE rows[i][col]]]]

\* The loop over matching_vars of apply_sequence_data_rowwise, from raw
\* row k onwards.
RECURSIVE update_rowwise(_, _, _, _, _, _)
update_rowwise(resource_table, raw_table, var_name_col, series_col, k, order) ==
    IF k > Len(raw_table.rows) THEN resource_table
    ELSE LET var_name == raw_table.rows[k][var_name_col]
             updated ==
                 IF In(var_name, resource_table.columns) /\ var_name # "timeindex"
                 THEN update_series(resource_table, var_name,
                                    json_loads(raw_table.rows[k][series_col]), order)
                 ELSE resource_table
         IN update_rowwise(updated, raw_table, var_name_col, series_col, k + 1, order)

\* The next resource after k of the loop of apply_element_data that is not
\* skipped as a sequence resource; 0 when the loop ends.
next_element(package, k) ==
    LET rest == {j \in (k + 1)..Len(pkg_resources(package)) :
                    ~in_sequences(pkg_resources(package)[j])}
    IN IF rest = {} THEN 0 ELSE CHOOSE j \in rest : \A m \in rest : j <= m

\* find_resource falling back to the first resource of the descriptor.
find_resource_or_first(package, sequence_name) ==
    LET found == {j \in 1..Len(pkg_resources(package)) :
                     pkg_resources(package)[j].name = sequence_name}
    IN IF found = {} THEN 1 ELSE CHOOSE j \in found : \A m \in found : j <= m

\* The resource of the descriptor named sequence_name; 0 when there is none.
find_resource(package, sequence_name) ==
    LET found == {j \in 1..Len(pkg_resources(package)) :
                     pkg_resources(package)[j].name = sequence_name}
    IN IF found = {} THEN 0 ELSE CHOOSE j \in found : \A m \in found : j <= m

\* written_back as a transaction that is rolled back: nothing is kept.
written_back_nothing(package, k, table) == package

\* The package with table written over the file of resource k.
written_back(package, k, table) ==
    [i \in 1..Len(package) |->
        IF package[i].path = pkg_resources(package)[k].path
        THEN copy_to(table, package[i]) ELSE package[i]]

NoScenario == [kind |-> "none", keys |-> <<>>]

\* No override operation is running.
NoRun ==
    [op |-> "", data |-> NoTable, scenario |-> NoScenario, scenario_column |-> "",
     sequence_name |-> "",
     before |-> <<>>, raw_table |-> NoTable, data_table |-> NoTable,
     resource_table |-> NoTable, update_cols |-> <<>>, res |-> 0, written |-> <<>>]

\* --------------------------------------------- the builder API, as a client
\* (the assembly UI of tui.py, the tests) drives it

NoDoc ==
    [regions |-> None, elements |-> <<>>, sequences |-> <<>>, timeindex |-> None]

AllAttributes == [kind |-> "none", items |-> <<>>]

Selected(items) == [kind |-> "list", items |-> items]

\* Arguments of ElementResourceBuilder(...) a client passes.
ApiElements ==
    {[component |-> "bus", name |-> "bus", selected |-> AllAttributes, sequences |-> <<>>],
     [component |-> "bus", name |-> "bus", selected |-> Selected(<<"region">>), sequences |-> <<>>],
     [component |-> "load", name |-> "demand", selected |-> AllAttributes, sequences |-> <<>>],
     [component |-> "load", name |-> "demand", selected |-> Selected(<<"region", "amount">>),
      sequences |-> <<>>],
     [component |-> "load", name |-> "demand", selected |-> Selected(<<"bus", "capacity">>),
      sequences |-> <<>>],
     [component |-> "link", name |-> "demand", selected |-> AllAttributes, sequences |-> <<>>]}

\* Rows a client passes to add_instance.
ApiRows ==
    {("name" :> "d1") @@ ("bus" :> "el"),
     ("bus" :> "heat"),
     ("name" :> "d2") @@ ("type" :> "load") @@ ("bus" :> ""),
     ("name" :> "el") @@ ("balanced" :> "True"),
     ("name" :> "l1") @@ ("from_bus" :> "el") @@ ("to_bus" :> "heat")}

ApiSequenceNames == {"demand_profile"}

ApiTimeindexes ==
    {None, Some(hourly_range("2016-01-01", 0)), Some(hourly_range("2016-01-01", 3))}

ApiColumnNames == {"demand", "timeindex"}

ApiSeries ==
    {<<>>, Zeros(2),
     <<[n |-> 1, v |-> "4"], [n |-> 1, v |-> "5"], [n |-> 1, v |-> "6"]>>}

\* What the package directory may hold before a run: it does not exist, or
\* it holds a package written earlier.
Targets == {None, Some({"datapackage.json", "data/elements/old.csv"})}

\* resource = ElementResourceBuilder(...); builder.add_resource(resource)
NewElementResourceOf(c) ==
    /\ pc = "api"
    /\ files = <<>>
    /\ LET built == ElementResourceBuilder(c.component, c.name, c.selected, c.sequences)
       IN IF built.err # ""
          THEN /\ err' = built.err
               /\ UNCHANGED resources
          ELSE /\ err' = ""
               /\ resources' = add_resource(resources, built.res)
    /\ UNCHANGED <<files, doc, pc, directory, run>>

NewElementResource == \E c \in ApiElements : NewElementResourceOf(c)

\* resource.add_instance(data) on element resource i of the package
AddInstanceOn(i, data) ==
    /\ pc = "api"
    /\ files = <<>>
    /\ resources[i].kind = "element"
    /\ Len(resources[i].instances) < MaxInstances
    /\ LET added == Element_add_instance(resources[i], data)
       IN /\ err' = added.err
          /\ resources' = DictPut(resources, added.res)
    /\ UNCHANGED <<files, doc, pc, directory, run>>

AddInstance == \E i \in 1..Len(resources), data \in ApiRows : AddInstanceOn(i, data)

\* resource = SequenceResourceBuilder(...); builder.add_resource(resource)
NewSequenceResource ==
    /\ pc = "api"
    /\ files = <<>>
    /\ \E n \in ApiSequenceNames, ti \in ApiTimeindexes :
         /\ resources' = add_resource(resources, SequenceResourceBuilder(n, ti))
    /\ err' = ""
    /\ UNCHANGED <<files, doc, pc, directory, run>>

\* resource.add_instance(name, timeseries) on sequence resource i
AddColumnOn(i, name, timeseries) ==
    /\ pc = "api"
    /\ files = <<>>
    /\ resources[i].kind = "sequence"
    /\ Len(resources[i].columns) < MaxColumns
    /\ LET added == Sequence_add_instance(resources[i], name, timeseries)
       IN /\ err' = added.err
          /\ resources' = DictPut(resources, added.res)
    /\ UNCHANGED <<files, doc, pc, directory, run>>

AddColumn ==
    \E i \in 1..Len(resources), name \in ApiColumnNames, timeseries \in ApiSeries :
        AddColumnOn(i, name, timeseries)

\* builder.infer_sequences_from_resources()
InferSequences ==
    /\ pc = "api"
    /\ files = <<>>
    /\ resources' = infer_sequences_from_resources(resources)
    /\ err' = ""
    /\ UNCHANGED <<files, doc, pc, directory, run>>

\* builder.infer_busses_from_resources()
InferBusses ==
    /\ pc = "api"
    /\ files = <<>>
    /\ LET inferred == infer_busses_from_resources(resources)
       IN /\ resources' = inferred.resources
          /\ err' = inferred.err
    /\ UNCHANGED <<files, doc, pc, directory, run>>

\* DPBuilderApp.on_button_pressed, save_btn: both inferences, then the save.
on_button_pressed ==
    /\ pc = "api"
    /\ LET withSequences == infer_sequences_from_resources(resources)
           inferred == infer_busses_from_resources(withSequences)
       IN /\ resources' = inferred.resources
          /\ err' = inferred.err
          /\ IF inferred.err = ""
             THEN \E orders \in IterationOrders(inferred.resources) :
                     files' = save_package(inferred.resources, orders)
             ELSE files' = files
    /\ UNCHANGED <<doc, pc, directory, run>>

InitAPI ==
    /\ resources = <<>>
    /\ err = ""
    /\ files = <<>>
    /\ doc = NoDoc
    /\ directory \in Targets
    /\ pc = "api"
    /\ run = NoRun

NextAPI ==
    \/ NewElementResource
    \/ AddInstance
    \/ NewSequenceResource
    \/ AddColumn
    \/ InferSequences
    \/ InferBusses
    \/ on_button_pressed

SpecAPI == InitAPI /\ [][NextAPI]_vars

\* ------------------------------------ scenario instantiation: create_blueprint

SeqsUpTo(S, n) == UNION {[1..k -> S] : k \in 0..n}

Absent == [present |-> FALSE, value |-> None]

Present(value) == [present |-> TRUE, value |-> value]

\* Instance rows of a blueprint document.
RawRows ==
    {("name" :> "d1") @@ ("bus" :> "electricity"),
     ("name" :> "d2") @@ ("profile" :> "own") @@ ("region" :> "X"),
     ("bus" :> "heat"),
     ("name" :> "d4") @@ ("type" :> "bus"),
     ("name" :> "d5") @@ ("amount" :> "50")}

\* The entries "demand" of the documents: a load resource.
DemandEntries ==
    {[name |-> "demand",
      config |-> [component |-> "load", attributes |-> a, sequences |-> s,
                  regions |-> r, instances |-> i]] :
        a \in {<<>>, <<"bus", "profile">>, <<"amount", "bus">>},
        s \in {<<>>, <<"amount">>},
        r \in {Absent, Present(None), Present(Some(<<"B">>))},
        i \in SeqsUpTo(RawRows, MaxInstances)}

\* What a document declares besides "demand": nothing, an explicit bus
\* resource without the attribute "balanced", a link between two busses, a
\* link resource with two instances, a load with its own region list, a
\* resource selecting an attribute its component does not declare.
OtherEntries ==
    {<<>>,
     <<[name |-> "bus",
        config |-> [component |-> "bus", attributes |-> <<"region">>, sequences |-> <<>>,
                    regions |-> Present(None),
                    instances |-> <<("name" :> "electricity")>>]]>>,
     <<[name |-> "line",
        config |-> [component |-> "link", attributes |-> <<>>, sequences |-> <<>>,
                    regions |-> Absent,
                    instances |-> <<("name" :> "l1") @@ ("from_bus" :> "electricity")
                                      @@ ("to_bus" :> "heat")>>]]>>,
     <<[name |-> "lines",
        config |-> [component |-> "link", attributes |-> <<>>, sequences |-> <<>>,
                    regions |-> Absent,
                    instances |-> <<("name" :> "l1") @@ ("from_bus" :> "electricity")
                                      @@ ("to_bus" :> "heat"),
                                    ("name" :> "l2") @@ ("from_bus" :> "gas")
                                      @@ ("to_bus" :> "electricity")>>]]>>,
     <<[name |-> "heat_demand",
        config |-> [component |-> "load", attributes |-> <<"amount", "bus", "region">>,
                    sequences |-> <<>>, regions |-> Present(Some(<<"BB", "B">>)),
                    instances |-> <<("name" :> "h1") @@ ("bus" :> "heat")>>]]>>,
     <<[name |-> "storage",
        config |-> [component |-> "load", attributes |-> <<"bus", "capacity">>,
                    sequences |-> <<>>, regions |-> Absent, instances |-> <<>>]]>>}

Docs ==
    {[regions |-> g, elements |-> <<d>> \o o, sequences |-> q, timeindex |-> t] :
        g \in {None, Some(<<"BB", "B">>)},
        d \in DemandEntries,
        o \in OtherEntries,
        q \in {<<>>, <<[name |-> "demand_profile", columns |-> <<"x">>]>>},
        t \in {None, Some([start |-> "2016-01-01", periods |-> 0]),
               Some([start |-> "2016-01-01", periods |-> 2]),
               Some([start |-> "2016-01-01", periods |-> DefaultPeriods])}}

\* _create_elements(builder, blueprint_data)
CreateElements ==
    /\ pc = "create_elements"
    /\ LET created == create_elements(resources, doc)
       IN /\ resources' = created.resources
          /\ err' = created.err
          /\ pc' = IF created.err = "" THEN "infer_sequences" ELSE "failed"
    /\ UNCHANGED <<files, doc, directory, run>>

\* builder.infer_sequences_from_resources()
InferSequencesStep ==
    /\ pc = "infer_sequences"
    /\ resources' = infer_sequences_from_resources(resources)
    /\ pc' = "create_sequences"
    /\ UNCHANGED <<err, files, doc, directory, run>>

\* _create_sequences with its error swallowed: the run goes on to the next
\* step.
CreateSequences_continuing ==
    /\ pc = "create_sequences"
    /\ LET created == create_sequences(resources, doc)
       IN /\ resources' = created.resources
          /\ err' = created.err
          /\ pc' = "infer_busses"
    /\ UNCHANGED <<files, doc, directory, run>>

\* _create_sequences(builder, blueprint_data)
CreateSequences ==
    /\ pc = "create_sequences"
    /\ LET created == create_sequences(resources, doc)
       IN /\ resources' = created.resources
          /\ err' = created.err
          /\ pc' = IF created.err = "" THEN "infer_busses" ELSE "failed"
    /\ UNCHANGED <<files, doc, directory, run>>

\* builder.infer_busses_from_resources()
InferBussesStep ==
    /\ pc = "infer_busses"
    /\ LET inferred == infer_busses_from_resources(resources)
       IN /\ resources' = inferred.resources
          /\ err' = inferred.err
          /\ pc' = IF inferred.err = "" THEN "save_package" ELSE "failed"
    /\ UNCHANGED <<files, doc, directory, run>>

\* builder.save_package()
SavePackage ==
    /\ pc = "save_package"
    /\ \E orders \in IterationOrders(resources) : files' = save_package(resources, orders)
    /\ pc' = "done"
    /\ UNCHANGED <<resources, err, doc, directory, run>>

\* check_overriding_of_datapackage: the directory after the check, or the
\* error raised.
check_overriding_of_datapackage(package_dir, override) ==
    IF package_dir # None
    THEN IF override THEN [err |-> "", package_dir |-> None]
         ELSE [err |-> "FileExistsError", package_dir |-> package_dir]
    ELSE [err |-> "", package_dir |-> package_dir]

\* blueprint_command: the check of the package directory, then
\* create_blueprint up to the construction of the builder.
blueprint_command ==
    /\ pc = "cli"
    /\ \E force \in BOOLEAN, blueprint_data \in Docs :
         LET checked == check_overriding_of_datapackage(directory, force)
         IN /\ err' = checked.err
            /\ directory' = checked.package_dir
            /\ IF checked.err # ""
               THEN pc' = "failed" /\ doc' = doc
               ELSE pc' = "create_elements" /\ doc' = blueprint_data
    /\ UNCHANGED <<resources, files, run>>

\* create_blueprint called on a fresh package directory, after the document
\* is read and the builder constructed; or the command line before
\* blueprint_command.
InitBlueprint ==
    /\ resources = <<>>
    /\ err = ""
    /\ files = <<>>
    /\ \/ doc \in Docs /\ directory = None /\ pc = "create_elements"
       \/ doc = NoDoc /\ directory \in Targets /\ pc = "cli"
    /\ run = NoRun

NextBlueprint ==
    \/ blueprint_command
    \/ CreateElements
    \/ InferSequencesStep
    \/ CreateSequences
    \/ InferBussesStep
    \/ SavePackage

SpecBlueprint == InitBlueprint /\ [][NextBlueprint]_vars

\* Both ways of building a package.
Init == InitAPI \/ InitBlueprint

Next == NextAPI \/ NextBlueprint

Spec == Init /\ [][Next]_vars

\* ------------------------------------------- overrides on a rendered package

\* The resources of a package with two element resources and one sequence
\* resource of three time steps from start.
OverrideResourcesFrom(start) ==
    LET demand0 == ElementResourceBuilder("load", "demand", AllAttributes, <<>>).res
        demand1 == Element_add_instance(demand0,
                      ("name" :> "d1") @@ ("bus" :> "el") @@ ("amount" :> "1")
                         @@ ("profile" :> "d1-profile")).res
        demand2 == Element_add_instance(demand1,
                      ("name" :> "d2") @@ ("amount" :> "2") @@ ("region" :> "S")).res
        profile0 == SequenceResourceBuilder("demand_profile",
                                            Some(hourly_range(start, 3)))
        profile1 == Sequence_add_instance(profile0, "d1-profile",
                      <<[n |-> 1, v |-> "4"], [n |-> 1, v |-> "5"], [n |-> 1, v |-> "6"]>>).res
        profile2 == Sequence_add_instance(profile1, "x", Zeros(3)).res
    IN infer_busses_from_resources(
          add_resource(add_resource(<<>>, demand2), profile2)).resources

OverrideResources == OverrideResourcesFrom("2016-01-01")

\* The package the override operations work on, rendered with a datetime
\* start.
OverridePackage ==
    save_package(OverrideResources, CHOOSE orders \in IterationOrders(OverrideResources) : TRUE)

\* The rendered packages the override operations work on: the time index
\* starts at a datetime, or at a date.
OverridePackages ==
    {OverridePackage,
     save_package(OverrideResourcesFrom("2016-06-01"),
                  CHOOSE orders \in IterationOrders(OverrideResources) : TRUE)}

\* A row of a data file: its cells under the columns.
Row(columns, cells) ==
    [col \in ToSet(columns) |-> cells[CHOOSE f \in 1..Len(columns) : columns[f] = col]]

\* The data files with these columns and up to MaxOverrideRows of the lines.
DataTables(columns, lines) ==
    {[columns |-> columns, rows |-> [i \in 1..Len(order) |-> Row(columns, order[i])]] :
        order \in UNION {SetOrders(chosen) :
                            chosen \in {some \in SUBSET lines :
                                           Cardinality(some) <= MaxOverrideRows}}}

\* WIDE element data: one column per attribute.
WideData ==
    DataTables(<<"scenario", "name", "amount", "region">>,
               {<<"2050", "d1", "10", "N">>,
                <<"ALL", "d2", "", "W">>,
                <<"2060", "d1", "30", "E">>,
                <<"2050", "zz", "40", "N">>})

\* LONG element data: one row per name and variable.
LongData ==
    DataTables(<<"scenario", "name", "var_name", "var_value">>,
               {<<"2050", "d1", "amount", "10">>,
                <<"ALL", "d1", "region", "N">>,
                <<"ALL", "d2", "amount", "20">>,
                <<"2060", "d1", "amount", "30">>,
                <<"2050", "zz", "capacity", "40">>})

\* WIDE sequence data: one row per time step, one column per series.
WideSequenceData ==
    DataTables(<<"timeindex", "scenario_key", "x">>,
               {<<"2016-01-01 00:00:00", "2060", "7">>,
                <<"2016-01-01 01:00:00", "ALL", "">>,
                <<"2017-01-01 00:00:00", "2050", "9">>})
    \cup DataTables(<<"timeindex", "d1-profile">>,
                    {<<"2016-01-01 00:00:00", "7">>,
                     <<"2016-01-01 02:00:00", "8">>})

\* ROWWISE sequence data: one row per series, its values in one cell.
RowwiseData ==
    DataTables(<<"scenario_key", "var_name", "series">>,
               {<<"ALL", "x", "[1, 2, 3]">>,
                <<"2060", "x", "[9.0, 9e0, 9]">>,
                <<"2050", "d1-profile", "[7, 8]">>,
                <<"2050", "y", "[1, 2, 3]">>})

\* The scenario argument: one key, or a list of keys.
OverrideScenarios ==
    {[kind |-> "str", keys |-> <<"2050">>],
     [kind |-> "list", keys |-> <<"2050", "2060">>]}

OverrideSequenceNames == {"demand_profile", "wind_profile"}

\* apply_element_data up to the opening of the descriptor.
apply_element_data ==
    /\ pc = "override"
    /\ \E data \in WideData \cup LongData, scenario \in OverrideScenarios :
         run' = [NoRun EXCEPT !.op = "element", !.data = data, !.scenario = scenario,
                              !.scenario_column = "scenario", !.before = files]
    /\ pc' = "loaded"
    /\ UNCHANGED <<resources, err, files, doc, directory>>

\* apply_sequence_data up to the lookup of the resource; it takes no
\* scenario.
apply_sequence_data ==
    /\ pc = "override"
    /\ \E data \in WideSequenceData, sequence_name \in OverrideSequenceNames :
         LET res == find_resource(files, sequence_name)
         IN /\ run' = [NoRun EXCEPT !.op = "sequence", !.data = data,
                                    !.sequence_name = sequence_name,
                                    !.before = files, !.res = res]
            /\ IF res = 0
               THEN err' = "ValueError" /\ pc' = "failed"
               ELSE err' = "" /\ pc' = "loaded"
    /\ UNCHANGED <<resources, files, doc, directory>>

\* apply_sequence_data_rowwise up to the lookup of the resource.
apply_sequence_data_rowwise ==
    /\ pc = "override"
    /\ \E data \in RowwiseData, sequence_name \in OverrideSequenceNames,
          scenario \in OverrideScenarios :
         LET res == find_resource(files, sequence_name)
         IN /\ run' = [NoRun EXCEPT !.op = "rowwise", !.data = data,
                                    !.scenario = scenario,
                                    !.scenario_column = "scenario_key",
                                    !.sequence_name = sequence_name,
                                    !.before = files, !.res = res]
            /\ IF res = 0
               THEN err' = "ValueError" /\ pc' = "failed"
               ELSE err' = "" /\ pc' = "loaded"
    /\ UNCHANGED <<resources, files, doc, directory>>

\* CREATE TABLE raw_table AS SELECT * FROM read_csv_auto(data_path) WHERE ...
create_raw_table ==
    /\ pc = "loaded"
    /\ run.op \in {"element", "rowwise"}
    /\ LET filtered == where_scenario(run.data, run.scenario_column, run.scenario)
       IN /\ err' = filtered.err
          /\ run' = [run EXCEPT !.raw_table = filtered.table]
          /\ pc' = IF filtered.err # "" THEN "failed" ELSE "filtered"
    /\ UNCHANGED <<resources, files, doc, directory>>

\* CREATE TABLE data_table: the pivot of raw_table when it has the
\* var_name and var_value columns, else raw_table (apply_element_data);
\* the data file as it is (apply_sequence_data).  The loop of
\* apply_element_data starts at the first resource it does not skip.
create_data_table ==
    \/ /\ pc = "filtered"
       /\ run.op = "element"
       /\ LET is_single_format == /\ In("var_name", run.raw_table.columns)
                                  /\ In("var_value", run.raw_table.columns)
              first == next_element(files, 0)
          IN /\ \E order \in RowOrders(Len(run.raw_table.rows)) :
                  run' = [run EXCEPT
                            !.data_table =
                                IF is_single_format
                                THEN pivot(run.raw_table, run.scenario_column,
                                           "var_name", "var_value", order)
                                ELSE run.raw_table,
                            !.res = first]
             /\ pc' = IF first = 0 THEN "override_done" ELSE "detected"
       /\ UNCHANGED <<resources, err, files, doc, directory>>
    \/ /\ pc = "loaded"
       /\ run.op = "sequence"
       /\ run' = [run EXCEPT !.data_table = run.data]
       /\ pc' = "detected"
       /\ UNCHANGED <<resources, err, files, doc, directory>>

\* The file of a resource the descriptor lists is in the package directory.
readable(file) == file.path \in directory[1]

\* CREATE TABLE resource_table from the file of the resource, which fails
\* when the file is not there, then the
\* UPDATE of its rows: by name (apply_element_data), by timeindex
\* (apply_sequence_data), by row number (apply_sequence_data_rowwise).
update_resource_table ==
    \/ /\ pc = "detected"
       /\ LET resource_table == read_csv_auto(pkg_resources(files)[run.res])
              key == IF run.op = "element" THEN "name" ELSE "timeindex"
              excluded == IF run.op = "element"
                          THEN <<"name", run.scenario_column, "id">>
                          ELSE <<"timeindex">>
              update_cols == get_update_columns(resource_table, run.data_table, excluded)
          IN IF ~readable(pkg_resources(files)[run.res])
             THEN /\ run' = run
                  /\ err' = "IOException"
                  /\ pc' = "failed"
             ELSE IF update_cols = <<>>
             THEN /\ run' = [run EXCEPT !.resource_table = resource_table,
                                        !.update_cols = update_cols]
                  /\ err' = ""
                  /\ pc' = "merged"
             ELSE IF ~set_clause_parses(update_cols)
             THEN /\ run' = [run EXCEPT !.resource_table = resource_table,
                                        !.update_cols = update_cols]
                  /\ err' = "ParserException"
                  /\ pc' = "failed"
             ELSE IF ~In(key, run.data_table.columns)
             THEN /\ run' = [run EXCEPT !.resource_table = resource_table,
                                        !.update_cols = update_cols]
                  /\ err' = "BinderException"
                  /\ pc' = "failed"
             ELSE /\ \E order \in RowOrders(Len(run.data_table.rows)) :
                       run' = [run EXCEPT
                                 !.resource_table = update(resource_table, run.data_table,
                                                           key, update_cols, order),
                                 !.update_cols = update_cols]
                  /\ err' = ""
                  /\ pc' = "merged"
       /\ UNCHANGED <<resources, files, doc, directory>>
    \/ /\ pc = "filtered"
       /\ run.op = "rowwise"
       /\ readable(pkg_resources(files)[run.res])
       /\ LET resource_table == read_csv_auto(pkg_resources(files)[run.res])
          IN \E order \in RowOrders(Len(resource_table.rows)) :
               run' = [run EXCEPT
                    !.resource_table =
                        update_rowwise(resource_table, run.raw_table,
                                       "var_name", "series", 1, order)]
       /\ pc' = "merged"
       /\ UNCHANGED <<resources, err, files, doc, directory>>

\* COPY resource_table TO the file of the resource: when there are update
\* columns (apply_element_data, apply_sequence_data), always
\* (apply_sequence_data_rowwise).  apply_element_data goes on to the next
\* resource.
copy_resource_table ==
    /\ pc = "merged"
    /\ LET copies == run.op = "rowwise" \/ run.update_cols # <<>>
           after == IF run.op = "element" THEN next_element(files, run.res) ELSE 0
       IN /\ files' = IF copies THEN written_back(files, run.res, run.resource_table)
                      ELSE files
          /\ run' = [run EXCEPT
                       !.written = IF copies
                                   THEN Append(@, pkg_resources(files)[run.res].path)
                                   ELSE @,
                       !.resource_table = NoTable,
                       !.update_cols = <<>>,
                       !.res = IF after = 0 THEN @ ELSE after]
          /\ pc' = IF after = 0 THEN "override_done" ELSE "detected"
    /\ UNCHANGED <<resources, err, doc, directory>>

\* What the package directory holds when an override is called: every file
\* the descriptor lists, or all but the file of the bus resource.
OverrideDirectories ==
    {Some({OverridePackage[i].path : i \in 1..Len(OverridePackage)}),
     Some({OverridePackage[i].path : i \in 1..Len(OverridePackage)}
             \ {"data/elements/bus.csv"})}

\* A rendered package and no override operation called yet.
InitOverride ==
    /\ resources = <<>>
    /\ err = ""
    /\ files \in OverridePackages
    /\ doc = NoDoc
    /\ directory \in OverrideDirectories
    /\ pc = "override"
    /\ run = NoRun

NextOverride ==
    \/ apply_element_data
    \/ apply_sequence_data
    \/ apply_sequence_data_rowwise
    \/ create_raw_table
    \/ create_data_table
    \/ update_resource_table
    \/ copy_resource_table

SpecOverride == InitOverride /\ [][NextOverride]_vars

\* ------------------------------------------------------------------ claims

SchemaViolation == {"KeyError", "ValueError"}

LengthMismatch == {"IndexError"}

ElementResources == {i \in 1..Len(resources) : resources[i].kind = "element"}

SequenceResources == {i \in 1..Len(resources) : resources[i].kind = "sequence"}

\* C1: in every reachable state, every stored row of every element resource
\* has "name" and "type", its "type" is the name of the resource's component,
\* and each of its keys is a field of the resource.
C1_ElementRowInvariant ==
    \A i \in ElementResources :
        \A k \in 1..Len(resources[i].instances) :
            LET row == resources[i].instances[k]
            IN /\ "name" \in DOMAIN row
               /\ "type" \in DOMAIN row
               /\ row["type"] = resources[i].component
               /\ \A key \in DOMAIN row : In(key, resources[i].fields)

\* A finished scenario instantiation whose load resource holds a regional
\* replica with a synthesized sequence foreign key, and whose bus resource
\* holds the bus row inferred for it.
C1_Witness ==
    /\ pc = "done"
    /\ \E i \in ElementResources :
         /\ resources[i].name = "demand"
         /\ \E k \in 1..Len(resources[i].instances) :
              /\ resources[i].instances[k]["name"] = "BB-d1"
              /\ RowGet(resources[i].instances[k], "profile") = "BB-d1-profile"
    /\ \E i \in ElementResources :
         /\ resources[i].name = "bus"
         /\ \E k \in 1..Len(resources[i].instances) :
              /\ resources[i].instances[k]["name"] = "BB-electricity"
              /\ RowGet(resources[i].instances[k], "balanced") = "True"

\* Whether add_instance(data) on resource res has to fail.
MustReject(res, data) ==
    \/ "name" \notin DOMAIN data
    \/ "type" \in DOMAIN data /\ data["type"] # res.component
    \/ \E key \in DOMAIN data : ~In(key, res.fields)

\* C2: add_instance(row) fails without a "name", with a "type" other than
\* the component's name, or with an undeclared key, and then the rows are
\* what they were; otherwise "type" is filled in if absent and exactly one
\* row is appended at the end, also when its name is already there.
C2_AddInstance ==
    [][\A i \in 1..Len(resources), data \in ApiRows :
          AddInstanceOn(i, data) =>
             IF MustReject(resources[i], data)
             THEN /\ err' \in SchemaViolation
                  /\ resources' = resources
             ELSE /\ err' = ""
                  /\ resources' =
                       [resources EXCEPT ![i].instances =
                          Append(@, IF "type" \in DOMAIN data THEN data
                                    ELSE RowSet(data, "type", resources[i].component))]]_vars

\* A resource holds two rows of the same name, and the last add_instance
\* (on another resource) failed.
C2_Witness ==
    /\ pc = "api"
    /\ err \in SchemaViolation
    /\ \E i \in ElementResources :
         /\ Len(resources[i].instances) = 2
         /\ resources[i].instances[1]["name"] = resources[i].instances[2]["name"]
         /\ "type" \in DOMAIN resources[i].instances[2]

\* C3: add_column with a value list whose length differs from the time
\* index's fails with LengthMismatch and changes neither fields nor columns;
\* and every stored column is as long as the time index of its resource.
C3_SequenceLength ==
    /\ [](\A i \in SequenceResources :
            \A c \in 1..Len(resources[i].columns) :
               SeriesLen(resources[i].columns[c].values) = resources[i].timeindex.periods)
    /\ [][\A i \in 1..Len(resources), name \in ApiColumnNames, timeseries \in ApiSeries :
            (AddColumnOn(i, name, timeseries)
               /\ SeriesLen(timeseries) # resources[i].timeindex.periods)
            => (err' \in LengthMismatch /\ resources' = resources)]_vars

\* A column was stored, and the last add_column was refused for its length.
C3_Witness ==
    /\ pc = "api"
    /\ err \in LengthMismatch
    /\ \E i \in SequenceResources : Len(resources[i].columns) = 1

\* The resource built from entry k of the document's "elements", once
\* _create_elements has added it to the package.
Built(k) == DictHas(resources, doc.elements[k].name)

ResourceOf(k) == DictGet(resources, doc.elements[k].name)

Rendering == pc \in {"save_package", "done"}

BusNames ==
    IF DictHas(resources, "bus")
    THEN {DictGet(resources, "bus").instances[k]["name"] :
             k \in 1..Len(DictGet(resources, "bus").instances)}
    ELSE {}

\* The region list that applies to a resource: the resource's own "regions"
\* entry if it has one (a list, or null for none), else the global list.
AppliedRegions(config) ==
    IF config.regions.present THEN config.regions.value ELSE doc.regions

\* C4: with a configured time index of at least one step, create_blueprint
\* does not fail on a column length, and all sequence resources of the
\* package it renders have the same time index.
C4_SharedTimeindex ==
    (doc.timeindex # None /\ doc.timeindex[1].periods > 0) =>
        /\ ~(pc = "failed" /\ err \in LengthMismatch)
        /\ Rendering =>
             \A i, j \in SequenceResources : resources[i].timeindex = resources[j].timeindex

\* The rows of res are the replicas of the instances of config over the
\* regions regs: instance-major, region-minor, names and bus values prefixed.
FanOut(res, config, regs) ==
    LET N == Len(config.instances)
        R == Len(regs)
    IN /\ Len(res.instances) = N * R
       /\ \A i \in 1..N, j \in 1..R :
            LET inst == config.instances[i]
                row == res.instances[(i - 1) * R + j]
            IN /\ row["name"] = regs[j] \o "-" \o inst["name"]
               /\ \A b \in ToSet(Component_from_name(config.component).busses) :
                    b \in DOMAIN inst =>
                       /\ RowGet(row, b) = regs[j] \o "-" \o inst[b]
                       /\ Rendering => RowGet(row, b) \in BusNames
               /\ RowGet(row, "region") = regs[j]

\* C5: a resource with an applicable list of R regions and N declared
\* instances holds N*R rows, by instance and then by region, named
\* "<region>-<name>", with every declared bus value prefixed by the region
\* and "region" set to it; the rendered bus table holds those bus names.
C5_RegionFanOut ==
    \A k \in 1..Len(doc.elements) :
        (Built(k) /\ AppliedRegions(doc.elements[k].config) # None)
        => FanOut(ResourceOf(k), doc.elements[k].config,
                  AppliedRegions(doc.elements[k].config)[1])

\* Two instances over two regions, rendered.
C5_Witness ==
    /\ pc = "done"
    /\ Len(doc.elements[1].config.instances) = 2
    /\ AppliedRegions(doc.elements[1].config) = Some(<<"BB", "B">>)
    /\ Len(ResourceOf(1).instances) = 4
    /\ RowGet(ResourceOf(1).instances[2], "bus") = "B-electricity"
    /\ RowGet(ResourceOf(1).instances[3], "region") = "BB"

\* The rows of res are the declared instances of config, each once, with
\* name, bus values and region as declared (the bus resource may hold
\* inferred rows after them).
PassThrough(res, config) ==
    LET N == Len(config.instances)
    IN /\ Len(res.instances) >= N
       /\ res.name # "bus" => Len(res.instances) = N
       /\ \A i \in 1..N :
            LET inst == config.instances[i]
                row == res.instances[i]
            IN /\ row["name"] = inst["name"]
               /\ \A b \in ToSet(Component_from_name(config.component).busses) \cup {"region"} :
                    /\ b \in DOMAIN row <=> b \in DOMAIN inst
                    /\ b \in DOMAIN inst => row[b] = inst[b]

\* The replicas of config's instances in res carry the regions regs.
Replicated(res, config, regs) ==
    /\ Len(res.instances) = Len(config.instances) * Len(regs)
    /\ \A i \in 1..Len(config.instances), j \in 1..Len(regs) :
         RowGet(res.instances[(i - 1) * Len(regs) + j], "region") = regs[j]

\* C6 as stated: the resource-level list applies when the resource declares
\* one, otherwise the global list; without an applicable list the instances
\* pass through.
C6_RegionSelection_AsClaimed ==
    \A k \in 1..Len(doc.elements) :
        Built(k) =>
            LET config == doc.elements[k].config
                regs == IF config.regions.present /\ config.regions.value # None
                        THEN config.regions.value ELSE doc.regions
            IN IF regs = None THEN PassThrough(ResourceOf(k), config)
               ELSE Replicated(ResourceOf(k), config, regs[1])

\* C6, amended: the resource's own "regions" entry applies whenever it is
\* present - a list, or null, which switches the fan-out off for the resource
\* even under a global list - and the global list applies otherwise; when no
\* list applies the instances pass through.
C6_RegionSelection ==
    \A k \in 1..Len(doc.elements) :
        Built(k) =>
            LET config == doc.elements[k].config
                regs == AppliedRegions(config)
            IN IF regs = None THEN PassThrough(ResourceOf(k), config)
               ELSE Replicated(ResourceOf(k), config, regs[1])

\* Under a global region list, "demand" with "regions: null" holds its one
\* instance once while "heat_demand" is fanned out over its own list.
C6_Witness ==
    /\ doc.regions # None
    /\ Len(doc.elements) = 2
    /\ doc.elements[1].config.regions = Present(None)
    /\ doc.elements[2].config.regions = Present(Some(<<"BB", "B">>))
    /\ Built(1) /\ Built(2)
    /\ Len(ResourceOf(1).instances) = 1
    /\ Len(ResourceOf(2).instances) = 2

\* The declared instance a stored row of entry k stems from.
InstanceOfRow(config, n) ==
    LET regs == AppliedRegions(config)
    IN IF regs = None THEN config.instances[n]
       ELSE config.instances[((n - 1) \div Len(regs[1])) + 1]

\* C7: in every row added by scenario instantiation, a sequence-link
\* attribute that is selected holds the declared value, or
\* "<stored name>-profile" when the instance omits it; one that is not
\* selected is not in the row.
C7_DefaultSequenceKeys ==
    \A k \in 1..Len(doc.elements) :
        Built(k) =>
            LET config == doc.elements[k].config
                component == Component_from_name(config.component)
                links == ToSet(component.sequences) \cup ToSet(config.sequences)
                selected == IF config.attributes = <<>> THEN ToSet(component.attributes)
                            ELSE ToSet(config.attributes)
                declared == Len(config.instances)
                           * (IF AppliedRegions(config) = None THEN 1
                              ELSE Len(AppliedRegions(config)[1]))
            IN \A n \in 1..declared, a \in links :
                  LET row == ResourceOf(k).instances[n]
                      inst == InstanceOfRow(config, n)
                  IN IF a \notin selected THEN a \notin DOMAIN row
                     ELSE IF a \in DOMAIN inst THEN RowGet(row, a) = inst[a]
                     ELSE RowGet(row, a) = row["name"] \o "-profile"

\* A replica with a synthesized key beside one that keeps its declared key,
\* in a resource whose second sequence-link ("amount") is not selected.
C7_Witness ==
    /\ pc = "done"
    /\ doc.elements[1].config.attributes = <<"bus", "profile">>
    /\ doc.elements[1].config.sequences = <<"amount">>
    /\ Len(ResourceOf(1).instances) = 4
    /\ RowGet(ResourceOf(1).instances[1], "profile") = "BB-d1-profile"
    /\ RowGet(ResourceOf(1).instances[3], "profile") = "own"

\* C8: a second infer_sequences, and a second infer_busses, changes nothing,
\* whichever of the two ran in between.
C8_InferenceIdempotent ==
    LET s == infer_sequences_from_resources(resources)
        b == infer_busses_from_resources(resources).resources
        sb == infer_busses_from_resources(s).resources
        bs == infer_sequences_from_resources(b)
    IN /\ infer_sequences_from_resources(s) = s
       /\ infer_busses_from_resources(b).resources = b
       /\ infer_sequences_from_resources(sb) = sb
       /\ infer_busses_from_resources(sb).resources = sb
       /\ infer_sequences_from_resources(bs) = bs
       /\ infer_busses_from_resources(bs).resources = bs

\* A saved package in which both inferences added something: the companion
\* profile of "demand" and two bus rows.
C8_Witness ==
    /\ pc = "api"
    /\ files # <<>>
    /\ DictHas(resources, "demand_profile")
    /\ DictHas(resources, "bus")
    /\ Len(DictGet(resources, "bus").instances) = 2
    /\ \A k \in 1..2 : RowGet(DictGet(resources, "bus").instances[k], "balanced") = "True"

\* C9: infer_busses completes on every package and leaves a "bus" element
\* resource naming every non-empty bus-link value; the rows it had are
\* unchanged and each missing name is appended once, with balanced = true.
C9_InferBussesCompletes ==
    [][InferBusses =>
         LET old == IF DictHas(resources, "bus")
                    THEN DictGet(resources, "bus").instances ELSE <<>>
             known == {old[k]["name"] : k \in 1..Len(old)}
         IN /\ err' = ""
            /\ DictHas(resources', "bus")
            /\ DictGet(resources', "bus").kind = "element"
            /\ LET new == DictGet(resources', "bus").instances
               IN /\ Len(new) >= Len(old)
                  /\ SubSeq(new, 1, Len(old)) = old
                  /\ \A k \in (Len(old) + 1)..Len(new) :
                       /\ new[k]["name"] \notin known
                       /\ RowGet(new[k], "balanced") = "True"
                       /\ \A m \in (Len(old) + 1)..Len(new) :
                            new[m]["name"] = new[k]["name"] => m = k
                  /\ \A i \in 1..Len(resources') :
                       resources'[i].kind = "element" =>
                          \A k \in 1..Len(resources'[i].instances) :
                             \A f \in ToSet(Component_from_name(resources'[i].component).busses) :
                                RowGet(resources'[i].instances[k], f) # ""
                                => \E m \in 1..Len(new) :
                                      new[m]["name"] = RowGet(resources'[i].instances[k], f)]_vars

\* C10: when render starts, the target resource of every foreign key of
\* every element resource is in the package, and resource names are unique.
C10_ForeignKeysResolve ==
    pc = "save_package" =>
        /\ \A i \in ElementResources :
             \A order \in SetOrders(resources[i].sequences) :
                \A n \in 1..Len(foreign_keys(resources[i], order)) :
                   DictHas(resources, foreign_keys(resources[i], order)[n].resource)
        /\ \A i, j \in 1..Len(resources) :
             resources[i].name = resources[j].name => i = j

\* C11: without a configured time index _create_sequences completes: the
\* run goes on to infer_busses, every explicitly declared sequence resource
\* is in the package without a column, and nothing else is created or
\* changed.
C11_NoTimeindexCompletes ==
    [][(CreateSequences /\ doc.timeindex = None) =>
         LET declared == {doc.sequences[k].name : k \in 1..Len(doc.sequences)}
         IN /\ err' = ""
            /\ pc' = "infer_busses"
            /\ \A n \in declared :
                 /\ DictHas(resources', n)
                 /\ DictGet(resources', n).kind = "sequence"
                 /\ DictGet(resources', n).columns = <<>>
            /\ \A i \in 1..Len(resources') :
                 resources'[i].name \notin declared =>
                    /\ DictHas(resources, resources'[i].name)
                    /\ DictGet(resources, resources'[i].name) = resources'[i]]_vars

\* An element resource for which infer_sequences has to add the companion.
NeedsProfile(rs, r) ==
    /\ r.kind = "element"
    /\ \E sequence \in r.sequences : In(sequence, r.fields)
    /\ ~DictHas(rs, r.name \o "_profile")

\* after is before with one empty sequence resource "<resource>_profile"
\* appended for each element resource that needs one, and nothing else.
SequencesInferred(before, after) ==
    LET added == (Len(before) + 1)..Len(after)
        wanted == {before[i].name \o "_profile" :
                      i \in {j \in 1..Len(before) : NeedsProfile(before, before[j])}}
    IN /\ Len(after) >= Len(before)
       /\ SubSeq(after, 1, Len(before)) = before
       /\ {after[i].name : i \in added} = wanted
       /\ Cardinality(added) = Cardinality(wanted)
       /\ \A i \in added : after[i].kind = "sequence" /\ after[i].columns = <<>>

C13_CreateElementResource ==
    [][\A c \in ApiElements :
          NewElementResourceOf(c) =>
             LET component == Component_from_name(c.component)
                 items == c.selected.items
                 expected == IF c.selected.kind = "none" THEN component.attributes
                             ELSE items
                                  \o (IF In("type", items) THEN <<>> ELSE <<"type">>)
                                  \o (IF In("name", items) THEN <<>> ELSE <<"name">>)
             IN IF \E k \in 1..Len(items) : ~In(items[k], component.attributes)
                THEN /\ err' \in SchemaViolation
                     /\ resources' = resources
                ELSE /\ err' = ""
                     /\ DictHas(resources', c.name)
                     /\ DictGet(resources', c.name).kind = "element"
                     /\ DictGet(resources', c.name).fields = expected
                     /\ DictGet(resources', c.name).instances = <<>>
                     /\ In("type", expected) /\ In("name", expected)]_vars

\* One resource created with all attributes of its component and one on
\* which "type" and "name" were appended to the selection.
C13_Witness ==
    /\ DictHas(resources, "bus")
    /\ DictGet(resources, "bus").fields = <<"region", "type", "name">>
    /\ DictHas(resources, "demand")
    /\ DictGet(resources, "demand").fields = Component_from_name("load").attributes
    /\ err = "KeyError"

\* The rendered file of resource res, if the package was saved.
RenderedOf(res) == {k \in 1..Len(files) : files[k].path = path(res)}

\* C14: the rendered table of an element resource has the schema's field
\* names, in schema order, as header and one row per instance, in insertion
\* order, with one cell per field in header order, empty where the instance
\* does not set the field.
C14_RenderedElementTable ==
    \A i \in ElementResources : \A k \in RenderedOf(resources[i]) :
        LET res == resources[i]
            file == files[k]
        IN /\ file.header = res.fields
           /\ Len(file.rows) = Len(res.instances)
           /\ \A r \in 1..Len(file.rows) :
                /\ file.rows[r].n = 1
                /\ Len(file.rows[r].cells) = Len(file.header)
                /\ \A f \in 1..Len(file.header) :
                     file.rows[r].cells[f] =
                        IF file.header[f] \in DOMAIN res.instances[r]
                        THEN res.instances[r][file.header[f]] ELSE ""

\* A rendered element table of two rows, one of them with an empty cell.
C14_Witness ==
    \E k \in 1..Len(files) :
        /\ files[k].path = "data/elements/demand.csv"
        /\ Len(files[k].rows) = 2
        /\ Len(files[k].header) > 2
        /\ \E f \in 1..Len(files[k].header) :
              /\ files[k].rows[1].cells[f] = ""
              /\ files[k].rows[2].cells[f] # ""

\* C15: the rendered table of a sequence resource has the header
\* "timeindex" followed by the column names in insertion order; without a
\* column it has no row, else one row per time step, each with as many cells
\* (the timestamp and one value per column) as the header.
C15_RenderedSequenceTable ==
    \A i \in SequenceResources : \A k \in RenderedOf(resources[i]) :
        LET res == resources[i]
            file == files[k]
        IN /\ file.header = <<"timeindex">> \o DictKeys(res.columns)
           /\ Len(res.columns) = 0 => file.rows = <<>>
           /\ Len(res.columns) > 0 =>
                /\ SeriesLen(file.rows) = res.timeindex.periods
                /\ \A r \in 1..Len(file.rows) :
                     1 + Len(file.rows[r].cells) = Len(file.header)

AlreadyExists == {"FileExistsError"}

\* C16: a save into a package directory that already holds files fails
\* with AlreadyExists and writes nothing.
C16_RenderRefusesPopulatedTarget ==
    [][(/\ on_button_pressed
        /\ directory # None
        /\ directory[1] # {}
        /\ infer_busses_from_resources(infer_sequences_from_resources(resources)).err = "")
       => /\ err' \in AlreadyExists
          /\ files' = files]_vars

\* The tables of the resources of a package, as a reader of the files
\* sees them.
TablesOf(package) ==
    [i \in 1..Len(pkg_resources(package)) |-> read_csv_auto(pkg_resources(package)[i])]

\* The scenario-selector column of the data of the running operation.
SelectorColumn == IF run.op = "element" THEN "scenario" ELSE "scenario_key"

\* The rows of the override data whose selector is a requested key or "ALL".
SelectedRows ==
    {i \in 1..Len(run.data.rows) :
        /\ In(SelectorColumn, run.data.columns)
        /\ run.data.rows[i][SelectorColumn] \in ToSet(run.scenario.keys) \cup {"ALL"}}

\* C17: in every override operation, with one or several requested keys,
\* only rows whose selector is a requested key or "ALL" can change the
\* target: data whose rows all carry another selector changes no table, and
\* a request for several keys is filtered like a request for one, it is not
\* refused by the filter.
C17_ScenarioFilter ==
    run.op # "" =>
        /\ (In(SelectorColumn, run.data.columns) /\ SelectedRows = {})
              => TablesOf(files) = TablesOf(run.before)
        /\ ~(pc = "failed" /\ err = "ParserException" /\ run.raw_table = NoTable
               /\ run.resource_table = NoTable /\ run.scenario.kind = "list")

\* The key column of resource i of the package.
KeyOf(i) == IF in_sequences(pkg_resources(files)[i]) THEN "timeindex" ELSE "name"

\* The override rows the running operation retains: the filtered rows, or
\* all rows of the data for the operation that takes no scenario.
RetainedRows == IF run.op = "sequence" THEN run.data.rows ELSE run.raw_table.rows

Ended == pc = "override_done" \/ (pc = "failed" /\ err # "IOException")

\* The running operation merges WIDE data.
WideOperation ==
    \/ run.op = "sequence"
    \/ /\ run.op = "element"
       /\ ~(In("var_name", run.data.columns) /\ In("var_value", run.data.columns))

\* Resource i of the package is a target of the running operation.
TargetOf(i) ==
    IF run.op = "element" THEN ~in_sequences(pkg_resources(files)[i]) ELSE i = run.res

\* The identity and selector columns of the running operation.
IdentityColumns ==
    IF run.op = "element" THEN {"name", run.scenario_column, "id"} ELSE {"timeindex"}

\* C19: after a WIDE override, for every target row whose key is on exactly
\* one retained override row, each column that the resource and the data
\* share, other than the identity and selector columns, holds the override
\* row's value, and every other column of the row is unchanged.
C19_WideMerge ==
    (Ended /\ WideOperation) =>
        \A i \in 1..Len(pkg_resources(files)) :
            TargetOf(i) =>
                LET before == TablesOf(run.before)[i]
                    after == TablesOf(files)[i]
                    matching(r) == {d \in 1..Len(RetainedRows) :
                                      /\ RowGet(RetainedRows[d], KeyOf(i)) # ""
                                      /\ RowGet(RetainedRows[d], KeyOf(i))
                                            = before.rows[r][KeyOf(i)]}
                IN \A r \in 1..Len(before.rows) :
                      Cardinality(matching(r)) = 1 =>
                          \A col \in ToSet(before.columns) :
                              after.rows[r][col] =
                                  IF In(col, run.data.columns) /\ col \notin IdentityColumns
                                  THEN RetainedRows[CHOOSE d \in matching(r) : TRUE][col]
                                  ELSE before.rows[r][col]

\* The running operation merges LONG element data.
LongOperation ==
    /\ run.op = "element"
    /\ In("var_name", run.data.columns)
    /\ In("var_value", run.data.columns)

\* C20: after a LONG element override, for every name n and variable v that
\* exactly one retained override row carries, and every row named n of an
\* element resource that has the column v, the row's column v holds the
\* override row's value, whatever other retained rows say about n.
C20_LongMerge ==
    (Ended /\ LongOperation) =>
        \A i \in 1..Len(pkg_resources(files)) :
            ~in_sequences(pkg_resources(files)[i]) =>
                LET before == TablesOf(run.before)[i]
                    after == TablesOf(files)[i]
                    supplying(n, v) == {d \in 1..Len(RetainedRows) :
                                          /\ RetainedRows[d]["name"] = n
                                          /\ RetainedRows[d]["var_name"] = v}
                IN \A r \in 1..Len(before.rows), v \in ToSet(before.columns) :
                      Cardinality(supplying(before.rows[r]["name"], v)) = 1 =>
                          after.rows[r][v] =
                              RetainedRows[CHOOSE d \in supplying(before.rows[r]["name"], v) :
                                              TRUE]["var_value"]

\* The variables the retained override rows name.
NamedVariables == {RetainedRows[d]["var_name"] : d \in 1..Len(RetainedRows)}

\* C21: after a ROWWISE override, for every retained row (variable x, list
\* L) with x a column of the named resource and L as long as the time index,
\* row i of column x holds L[i], by row position; the timeindex column and
\* the columns no retained row names are unchanged.
C21_RowwiseMerge ==
    (pc = "override_done" /\ run.op = "rowwise") =>
        LET before == TablesOf(run.before)[run.res]
            after == TablesOf(files)[run.res]
        IN /\ \A d \in 1..Len(RetainedRows) :
                 LET x == RetainedRows[d]["var_name"]
                     L == json_loads(RetainedRows[d]["series"])
                 IN (/\ In(x, before.columns)
                     /\ x # "timeindex"
                     /\ Len(L) = Len(before.rows))
                       => \A i \in 1..Len(before.rows) : after.rows[i][x] = L[i]
           /\ \A i \in 1..Len(before.rows), col \in ToSet(before.columns) :
                 (col = "timeindex" \/ col \notin NamedVariables)
                    => after.rows[i][col] = before.rows[i][col]

\* The columns or variables the override data of the running operation
\* supplies: the variables its retained rows name (LONG, ROWWISE), or its
\* columns (WIDE).
Supplied ==
    IF run.op = "rowwise" \/ LongOperation THEN NamedVariables
    ELSE ToSet(run.data.columns)

\* The override data shares a column with resource i of the package beyond
\* the key and selector columns.
Overlaps(i) ==
    \E col \in ToSet(TablesOf(run.before)[i].columns) :
        col \in Supplied /\ col \notin IdentityColumns

\* C22: in every override operation a target resource with which the
\* override data shares nothing beyond the key and selector columns is not
\* written at all: its path is not among the written files and its file is
\* the file it was.
C22_NoOverlapNoRewrite ==
    (Ended /\ run.op # "") =>
        \A i \in 1..Len(pkg_resources(files)) :
            (TargetOf(i) /\ ~Overlaps(i)) =>
                /\ ~In(pkg_resources(files)[i].path, run.written)
                /\ pkg_resources(files)[i] = pkg_resources(run.before)[i]

\* The exception that reports a resource missing from the descriptor.
ResourceNotFound == {"ValueError"}

\* The running operation is a sequence override that names a resource the
\* descriptor does not list.
NamesAbsentResource ==
    /\ run.op \in {"sequence", "rowwise"}
    /\ \A i \in 1..Len(pkg_resources(run.before)) :
          pkg_resources(run.before)[i].name # run.sequence_name

\* C23: a sequence override, wide or rowwise, that names a resource absent
\* from the descriptor has failed with ResourceNotFound as soon as it is
\* called: no table of override or resource data exists, nothing is written
\* and every file, the descriptor included, is the file it was.
C23_ResourceNotFound ==
    NamesAbsentResource =>
        /\ pc = "failed"
        /\ err \in ResourceNotFound
        /\ run.raw_table = NoTable
        /\ run.data_table = NoTable
        /\ run.resource_table = NoTable
        /\ run.written = <<>>
        /\ files = run.before

\* C23 witness: a wide and a rowwise override with rows to apply could each
\* name the absent resource; here one of them has.
C23_Witness ==
    /\ NamesAbsentResource
    /\ run.data.rows # <<>>
    /\ pc = "failed"

\* C24: every override run takes its stages in the order Loaded, Filtered,
\* FormatDetected, Merged, Persisted: the descriptor is opened and the target
\* resolved first; the override rows are filtered by scenario key before
\* their shape is determined and the table to merge is made; a resource is
\* merged only after that (for the rowwise operation, whose shape is fixed
\* by the call, after the filter); and a file is written only after the
\* merge of its resource.
C24_StageOrder ==
    [][/\ pc' = "loaded" => pc = "override"
       /\ pc' = "filtered" => pc = "loaded"
       /\ pc' = "detected" => pc \in {"filtered", "merged"}
       /\ (run.data_table = NoTable /\ run'.data_table # NoTable)
             => (run.raw_table # NoTable /\ run'.raw_table = run.raw_table)
       /\ pc' = "merged" => (pc = "detected" \/ (run.op = "rowwise" /\ pc = "filtered"))
       /\ (run.resource_table = NoTable /\ run'.resource_table # NoTable)
             => (run.res # 0 /\ (run.op = "rowwise" \/ run.data_table # NoTable))
       /\ files' # files => (pc = "merged" /\ run.resource_table # NoTable)]_vars

\* The position in the descriptor of the resource with this path.
PositionOf(p) ==
    CHOOSE i \in 1..Len(pkg_resources(run.before)) : pkg_resources(run.before)[i].path = p

\* The descriptor file of a package.
DescriptorOf(package) == SelectSeq(package, LAMBDA file : file.path = "datapackage.json")

\* C25: an element override works through the element resources one at a
\* time in descriptor order, and when it fails at the k-th resource nothing
\* is rolled back: every element resource before it has the content its
\* merge gave it (and was written if the data overlaps it), every resource
\* from the k-th on and every sequence resource has the file it had, and the
\* descriptor is unchanged.
C25_NoRollback ==
    run.op = "element" =>
        /\ \A a, b \in 1..Len(run.written) :
              a < b => PositionOf(run.written[a]) < PositionOf(run.written[b])
        /\ \A a \in 1..Len(run.written) : PositionOf(run.written[a]) <= run.res
        /\ (pc = "failed" /\ run.res # 0) =>
              /\ DescriptorOf(files) = DescriptorOf(run.before)
              /\ \A i \in 1..Len(pkg_resources(files)) :
                    LET file == pkg_resources(files)[i]
                        before == pkg_resources(run.before)[i]
                        cols == get_update_columns(read_csv_auto(before), run.data_table,
                                                   <<"name", run.scenario_column, "id">>)
                    IN IF i >= run.res \/ in_sequences(before) \/ cols = <<>>
                       THEN file = before /\ ~In(before.path, run.written)
                       ELSE /\ In(before.path, run.written)
                            /\ \E order \in RowOrders(Len(run.data_table.rows)) :
                                  read_csv_auto(file) =
                                     update(read_csv_auto(before), run.data_table,
                                            "name", cols, order)

\* C25 witness: an element override has failed at a later resource after it
\* changed an earlier one.
C25_Witness ==
    /\ run.op = "element"
    /\ pc = "failed"
    /\ run.res > 1
    /\ run.written # <<>>
    /\ TablesOf(files) # TablesOf(run.before)

\* The position of the resource with this name in a list of resources or of
\* descriptor entries, 0 when there is none.
IndexOfName(d, n) ==
    IF DictHas(d, n) THEN CHOOSE i \in 1..Len(d) : d[i].name = n ELSE 0

\* The element resources the document of the run declares.
DeclaredElements == {doc.elements[k].name : k \in 1..Len(doc.elements)}

\* C26: a render writes one file per resource in resource-insertion order
\* and then the descriptor, which lists the resources in the same order; in
\* a scenario-instantiation run a companion profile resource comes after the
\* element resource it belongs to, and a bus resource the document did not
\* declare comes after every declared element resource.
C26_RenderOrder ==
    [][files' # files =>
          LET rs == resources'
              n == Len(rs)
          IN /\ Len(files') = n + 1
             /\ \A i \in 1..n :
                   /\ files'[i].path = path(rs[i])
                   /\ files'[i].name = rs[i].name
             /\ files'[n + 1].path = "datapackage.json"
             /\ Len(files'[n + 1].resources) = n
             /\ \A i \in 1..n :
                   /\ files'[n + 1].resources[i].name = rs[i].name
                   /\ files'[n + 1].resources[i].path = path(rs[i])
             /\ pc' = "done" =>
                   \A e \in DeclaredElements :
                      /\ IndexOfName(rs, e) # 0
                      /\ (DictHas(rs, e \o "_profile") /\ e \o "_profile" \notin DeclaredElements)
                            => IndexOfName(rs, e) < IndexOfName(rs, e \o "_profile")
                      /\ "bus" \notin DeclaredElements
                            => IndexOfName(rs, e) < IndexOfName(rs, "bus")]_vars

\* C26 witness: a scenario-instantiation run has rendered a package with an
\* inferred companion profile and an inferred bus resource after two
\* declared element resources.
C26_Witness ==
    /\ pc = "done"
    /\ Len(doc.elements) = 2
    /\ "bus" \notin DeclaredElements
    /\ Len(files) = 5
    /\ files[3].name = "demand_profile"
    /\ files[4].name = "bus"
    /\ files[4].rows # <<>>
    /\ files[5].path = "datapackage.json"

\* The values of a list that are not empty and not seen before, in the order
\* of their first occurrence.
RECURSIVE first_occurrences(_, _, _)
first_occurrences(values, seen, k) ==
    IF k > Len(values) THEN <<>>
    ELSE IF values[k] = "" \/ values[k] \in seen
    THEN first_occurrences(values, seen, k + 1)
    ELSE <<values[k]>> \o first_occurrences(values, seen \cup {values[k]}, k + 1)

\* The bus-link values of the resources from the r-th on, resource by
\* resource, instance by instance, each instance's bus-link attributes
\* before the next instance.
RECURSIVE InstanceMajorValues(_, _)
InstanceMajorValues(rs, r) ==
    IF r > Len(rs) THEN <<>>
    ELSE IF rs[r].kind # "element" THEN InstanceMajorValues(rs, r + 1)
    ELSE LET busses == Component_from_name(rs[r].component).busses
             nf == Len(busses)
         IN [idx \in 1..(Len(rs[r].instances) * nf) |->
               RowGet(rs[r].instances[((idx - 1) \div nf) + 1], busses[((idx - 1) % nf) + 1])]
            \o InstanceMajorValues(rs, r + 1)

\* The names of the instances of the bus resource.
BusRowNames(rs) ==
    IF DictHas(rs, "bus")
    THEN [k \in 1..Len(DictGet(rs, "bus").instances) |->
            RowGet(DictGet(rs, "bus").instances[k], "name")]
    ELSE <<>>

\* C27: infer_busses appends the missing bus rows in the order of first
\* occurrence of the scan over the element resources in insertion order
\* and, within a resource, over its instances in insertion order, each
\* instance's bus-link attributes before the next instance.
C27_BusAppendOrder ==
    [][(pc = "infer_busses" /\ pc' = "save_package") =>
          BusRowNames(resources') =
             BusRowNames(resources)
                \o first_occurrences(InstanceMajorValues(resources, 1),
                                     {BusRowNames(resources)[k] : k \in 1..Len(BusRowNames(resources))},
                                     1)]_vars

\* C28: a LONG element override leaves the column v of a target row as it
\* was unless a retained override row carries that row's name and the
\* variable name v.
C28_LongNoErase ==
    (Ended /\ LongOperation) =>
        \A i \in 1..Len(pkg_resources(files)) :
            ~in_sequences(pkg_resources(files)[i]) =>
                LET before == TablesOf(run.before)[i]
                    after == TablesOf(files)[i]
                IN \A r \in 1..Len(before.rows), v \in ToSet(before.columns) :
                      (\A d \in 1..Len(RetainedRows) :
                          ~(/\ RetainedRows[d]["name"] = before.rows[r]["name"]
                            /\ RetainedRows[d]["var_name"] = v))
                         => after.rows[r][v] = before.rows[r][v]

\* The steps of create_blueprint before save_package.
BuildSteps == {"create_elements", "infer_sequences", "create_sequences", "infer_busses"}

\* C29: a step of scenario instantiation before the render creates or
\* changes no file and no directory; a step that raises an error ends the
\* run there, with nothing written, and no step follows a failed run.
C29_FailedBuildWritesNothing ==
    [][/\ pc # "failed"
       /\ pc \in BuildSteps =>
             /\ files' = files
             /\ directory' = directory
             /\ err' # "" => (pc' = "failed" /\ files' = <<>>)
             /\ pc' = "failed" => err' # ""]_vars

\* C29 witness: the run has failed in _create_sequences, after the element
\* resources were built, and nothing is written.
C29_Witness ==
    /\ pc = "failed"
    /\ err = "IndexError"
    /\ resources # <<>>
    /\ doc # NoDoc
    /\ files = <<>>

\* C30: the rendered package of a scenario-instantiation run is the only
\* one a run on the same input can produce: every render of the resources
\* built from the document gives the files and the descriptor, with each
\* element resource's foreign-key list in the same order, that this run
\* wrote.
C30_DeterministicRender ==
    pc = "done" =>
        \A orders \in IterationOrders(resources) : files = save_package(resources, orders)

====
